---- MODULE Spec2Model ----
(***************************************************************************)
(* ValutaTrade Hub: the rate cache and update pipeline.                    *)
(*                                                                         *)
(* The model follows parser_service/updater.py (RatesUpdater.run_update),  *)
(* parser_service/api_clients.py (the two providers),                      *)
(* parser_service/storage.py (atomic_write and the two JSON stores) and    *)
(* parser_service/scheduler.py (the background loop).                      *)
(*                                                                         *)
(* Representation.                                                         *)
(*  - A timestamp string is the sequence of its characters; the fixed      *)
(*    width "%Y-%m-%dT%H:%M:%SZ" rendering of a clock reading is a         *)
(*    fixed-width digit sequence.  The absent/empty string is <<>>.        *)
(*    Strings are compared as Python compares them: lexicographically.     *)
(*  - A pair key "FROM_TO" is the pair <<FROM, TO>> of its two codes.      *)
(*  - A float is an exact rational <<numerator, denominator>>.             *)
(*  - A file is [st, data]: st is "none" (no such file), "partial" (an     *)
(*    opened file whose JSON text is not complete yet) or "full".          *)
(***************************************************************************)
EXTENDS Integers, Sequences, FiniteSets, TLC

\* ------------------------------------------------------------------------
\* Bounds of the model.
\* ------------------------------------------------------------------------

\* Largest reading of the wall clock (in seconds since the first reading).
MaxClock == 2

\* How many run_update calls the foreground starts one after another.
MaxRuns == 2

\* How many run_update calls each of two racing threads starts.
MaxRacing == 1

\* How many storage faults (a failing write or replace) may happen.
MaxFaults == 1

\* How many iterations a scheduler thread begins.
MaxIterations == 2

\* ------------------------------------------------------------------------
\* Configuration (parser_service/config.py, core/constants.py).
\* ------------------------------------------------------------------------

BASE_FIAT_CURRENCY == "USD"

\* SUPPORTED_FIAT and SUPPORTED_CRYPTO (core/constants.py).
SUPPORTED_FIAT == <<"EUR", "GBP", "RUB">>

SUPPORTED_CRYPTO == <<"BTC", "ETH", "SOL">>

\* CRYPTO_ID_MAP, the provider id of every crypto code.
CRYPTO_ID_MAP == [BTC |-> "bitcoin", ETH |-> "ethereum", SOL |-> "solana"]

\* The keys of CRYPTO_ID_MAP in insertion order, the order in which
\* CoinGeckoClient.fetch_rates goes through CRYPTO_ID_MAP.items().
CRYPTO_CODES == <<"BTC", "ETH", "SOL">>

\* self.FIAT_CURRENCIES = SUPPORTED_FIAT
FIAT_CURRENCIES == SUPPORTED_FIAT

RATES_FILE == "rates.json"

EXCHANGE_HISTORY_FILE == "exchange_rates.json"

\* SettingsLoader.get_portfolios_file().
PORTFOLIOS_FILE == "portfolios.json"

\* SettingsLoader.get_users_file().
USERS_FILE == "users.json"

\* The shortest password register accepts.
MIN_PASSWORD_LENGTH == 4

\* The configured clients, in the order run_update tries them.
Clients == <<"CoinGeckoClient", "ExchangeRateApiClient">>

\* The threads that race in a session with one scheduler: its thread and
\* the foreground.
Procs == {"bg", "fg"}

\* Every thread of control: those, and the thread of a second
\* SimpleScheduler of the session.
Threads == Procs \cup {"bg2"}

\* The scheduler objects of a session.
Scheds == {1, 2}

\* The thread a scheduler's start() creates.
Thread(s) == IF s = 1 THEN "bg" ELSE "bg2"

\* mkstemp gives every caller a name of its own.
TmpFile(p) ==
    CASE p = "bg" -> "tmp_bg"
      [] p = "bg2" -> "tmp_bg2"
      [] OTHER -> "tmp_fg"

Files ==
    {RATES_FILE, EXCHANGE_HISTORY_FILE, PORTFOLIOS_FILE, USERS_FILE,
     "tmp_bg", "tmp_bg2", "tmp_fg"}

\* None where a timestamp string is expected ("last_refresh": null).
None == <<-1>>

\* ------------------------------------------------------------------------
\* Strings and numbers.
\* ------------------------------------------------------------------------

\* A string is a sequence of characters, a character its value as a digit
\* (0..9) or, for the letters, as a base-36 digit: "Z", the UTC designator.
Z == 35

\* strftime("%Y-%m-%dT%H:%M:%SZ"): a fixed-width rendering of the clock,
\* ending in the UTC designator.
FormatTs(t) == <<t \div 10, t % 10, Z>>

\* Python's str < str: the first differing character decides, and a proper
\* prefix is smaller.
RECURSIVE StrLessFrom(_, _, _)
StrLessFrom(a, b, i) ==
    IF i > Len(a) THEN i <= Len(b)
    ELSE IF i > Len(b) THEN FALSE
    ELSE IF a[i] # b[i] THEN a[i] < b[i]
    ELSE StrLessFrom(a, b, i + 1)

StrLess(a, b) == StrLessFrom(a, b, 1)

\* float(x) of a JSON number.
Float(x) == <<x, 1>>

\* 1.0 / r for r # 0, sign kept in the numerator.
Reciprocal(r) == IF r[1] > 0 THEN <<r[2], r[1]>> ELSE <<-r[2], -r[1]>>

\* "1.0 / rate if rate != 0 else 0.0" (api_clients.py lines 75 and 140).
InverseRate(r) == IF r[1] # 0 THEN Reciprocal(r) ELSE <<0, 1>>

\* f"{a}_{b}"
PairKey(a, b) == <<a, b>>

\* pair_key.split("_", 1)
SplitKey(k) == <<k[1], k[2]>>

\* ------------------------------------------------------------------------
\* dict helpers.
\* ------------------------------------------------------------------------

EmptyDict == <<>>

\* d[k] = v
DictSet(d, k, v) ==
    [x \in (DOMAIN d) \cup {k} |-> IF x = k THEN v ELSE d[x]]

Has(d, k) == k \in DOMAIN d

\* ------------------------------------------------------------------------
\* Providers (parser_service/api_clients.py).
\*
\* An HTTP exchange is [kind, exc, rates, body]:
\*   kind "network"  the request raised (timeout, connection error)
\*   kind "http"     raise_for_status raised (non-2xx)
\*   kind "notjson"  resp.json() raised, and exc says what: see JsonErrors
\*   kind "shape"    the JSON is not an object (a list, a number)
\*   kind "ok"       the JSON is an object; body maps each configured code
\*                   to the value found for it, and rates says what the
\*                   fiat source's "rates" member is
\* A fetch ends as [status, pairs, msg]: status "ok" with the returned
\* batch (a sequence of [key, meta] in dict insertion order), status
\* "ApiRequestError" with its message, or status "AttributeError" /
\* "ValueError" for an exception of another type leaving fetch_rates.
\* ------------------------------------------------------------------------

\* A JSON value met where a rate is expected: absent (or null), a value
\* that is no object where an object is expected, a non-numeric string, a
\* list, or the number n.
JMissing == [t |-> "missing", n |-> 0]

JNotObject == [t |-> "notobject", n |-> 0]

JString == [t |-> "string", n |-> 0]

\* A JSON list or object where a number is expected.
JList == [t |-> "list", n |-> 0]

JNum(n) == [t |-> "num", n |-> n]

RawRates == {0, 2, 4}

FailKinds == {"network", "http", "notjson", "shape"}

Ok(pairs) == [status |-> "ok", pairs |-> pairs, msg |-> <<>>]

Fails(status, msg) == [status |-> status, pairs |-> <<>>, msg |-> msg]

\* What resp.json() raises on a body that is no JSON.  The repository pins
\* no version of the requests library, and the class depends on it:
\*   "requests"    requests.exceptions.JSONDecodeError of requests 2.27
\*                 and later: a RequestException and a json.JSONDecodeError
\*   "simplejson"  the same class where simplejson is installed: a
\*                 RequestException, but no json.JSONDecodeError
\*   "json"        a plain json.JSONDecodeError (requests before 2.27)
\*   "value"       a ValueError that is neither (requests before 2.27
\*                 where simplejson is installed)
JsonErrors == {"requests", "simplejson", "json", "value"}

\* The try block of both clients: requests.get, raise_for_status, resp.json,
\* and its handlers in their order.  CoinGecko wraps resp.json() in a
\* handler of json.JSONDecodeError that raises ApiRequestError, which only
\* "except Exception" takes; what that inner handler lets through, and
\* everything resp.json() raises in ExchangeRate, meets "except
\* RequestException" first and "except Exception" second.  For an exchange
\* that yields parsed JSON it is "ok" with nothing yet: the client goes on
\* with the parsed data.
RequestOutcome(resp, who) ==
    CASE resp.kind \in {"network", "http"} ->
            Fails("ApiRequestError", <<"request", who>>)
      [] resp.kind = "notjson" ->
            IF who = "CoinGecko" /\ resp.exc \in {"requests", "json"}
            THEN Fails("ApiRequestError", <<"unexpected", who>>)
            ELSE IF resp.exc \in {"requests", "simplejson"}
            THEN Fails("ApiRequestError", <<"request", who>>)
            ELSE Fails("ApiRequestError", <<"unexpected", who>>)
      [] OTHER -> Ok(<<>>)

CoinGeckoQuote(rate, ts, raw_id) ==
    [rate |-> rate, source |-> "CoinGecko", updated_at |-> ts,
     meta |-> [raw_id |-> raw_id, status_code |-> 200]]

\* The loop of CoinGeckoClient.fetch_rates over CRYPTO_ID_MAP, from the
\* i-th code on; acc is the result built so far.
RECURSIVE CoinGeckoLoop(_, _, _, _)
CoinGeckoLoop(body, ts, i, acc) ==
    IF i > Len(CRYPTO_CODES) THEN Ok(acc)
    ELSE LET code == CRYPTO_CODES[i]
             raw_id == CRYPTO_ID_MAP[code]
             v == body[code]
         IN  CASE v.t = "missing" ->
                     \* "if rate is None: continue"
                     CoinGeckoLoop(body, ts, i + 1, acc)
               [] v.t = "notobject" ->
                     \* raw.get on a value that is no dict
                     Fails("AttributeError", <<"raw.get", "CoinGecko">>)
               [] v.t = "string" ->
                     \* float("abc")
                     Fails("ValueError", <<"float", "CoinGecko">>)
               [] v.t = "list" ->
                     \* float([2])
                     Fails("TypeError", <<"float", "CoinGecko">>)
               [] OTHER ->
                     CoinGeckoLoop(body, ts, i + 1,
                         acc \o
                         << [key |-> PairKey(code, BASE_FIAT_CURRENCY),
                             meta |-> CoinGeckoQuote(Float(v.n), ts, raw_id)],
                            [key |-> PairKey(BASE_FIAT_CURRENCY, code),
                             meta |-> CoinGeckoQuote(InverseRate(Float(v.n)),
                                                     ts, raw_id)] >>)

\* CoinGeckoClient.fetch_rates; ts is the clock reading taken after the
\* response arrived.
CoinGeckoFetch(resp, ts) ==
    LET r == RequestOutcome(resp, "CoinGecko")
    IN  IF r.status # "ok" THEN r
        ELSE IF resp.kind = "shape"
             THEN Fails("AttributeError", <<"data.get", "CoinGecko">>)
             ELSE CoinGeckoLoop(resp.body, ts, 1, <<>>)

ExchangeRateQuote(rate, ts) ==
    [rate |-> rate, source |-> "ExchangeRate-API", updated_at |-> ts,
     meta |-> [status_code |-> 200]]

\* The loop of ExchangeRateApiClient.fetch_rates over FIAT_CURRENCIES.
RECURSIVE ExchangeRateLoop(_, _, _, _)
ExchangeRateLoop(rates, ts, i, acc) ==
    IF i > Len(FIAT_CURRENCIES) THEN Ok(acc)
    ELSE LET code == FIAT_CURRENCIES[i]
             v == rates[code]
         IN  IF code = BASE_FIAT_CURRENCY \/ v.t # "num"
             THEN \* "continue": the base itself, or float() raised
                  \* TypeError (None, a list) or ValueError (a string)
                  ExchangeRateLoop(rates, ts, i + 1, acc)
             ELSE ExchangeRateLoop(rates, ts, i + 1,
                      acc \o
                      << [key |-> PairKey(BASE_FIAT_CURRENCY, code),
                          meta |-> ExchangeRateQuote(Float(v.n), ts)],
                         [key |-> PairKey(code, BASE_FIAT_CURRENCY),
                          meta |-> ExchangeRateQuote(InverseRate(Float(v.n)),
                                                     ts)] >>)

\* ExchangeRateApiClient.fetch_rates; ts is the clock reading taken before
\* the request.  resp.rates is "missing" (no "rates" and no
\* "conversion_rates", or an empty one), "notobject" (a non-empty list) or
\* "object", and then resp.body maps each code to its value.
ExchangeRateFetch(resp, ts) ==
    LET r == RequestOutcome(resp, "ExchangeRate")
    IN  IF r.status # "ok" THEN r
        ELSE IF resp.kind = "shape"
             THEN Fails("AttributeError", <<"data.get", "ExchangeRate">>)
        ELSE IF resp.rates = "missing"
             THEN Fails("ApiRequestError", <<"no_rates", "ExchangeRate">>)
        ELSE IF resp.rates = "notobject"
             THEN Fails("AttributeError", <<"rates.get", "ExchangeRate">>)
        ELSE ExchangeRateLoop(resp.body, ts, 1, <<>>)

fetch_rates(client, resp, ts) ==
    IF client = "CoinGeckoClient" THEN CoinGeckoFetch(resp, ts)
    ELSE ExchangeRateFetch(resp, ts)

\* The codes a response body is asked about: those of both providers.
BodyCodes == {"BTC", "ETH", "SOL", "EUR", "GBP", "RUB"}

\* The body holding v for the first configured code of either provider
\* and w for every other code.
Body(v, w) == [c \in BodyCodes |-> IF c \in {"BTC", "EUR"} THEN v ELSE w]

\* The values a provider's body can hold where a rate is expected, the
\* numbers being among raws.  The fiat loop skips whatever float()
\* refuses, so one such value stands for them all.
ValuesOver(client, raws) ==
    (IF client = "CoinGeckoClient"
     THEN {JMissing, JNotObject, JString, JList}
     ELSE {JMissing, JString})
    \cup {JNum(n) : n \in raws}

\* The exchanges that yield no usable object: the failures of the
\* transport and, for the fiat source, a missing or ill-formed "rates".
BrokenResponses(client) ==
    [kind : FailKinds \ {"notjson"}, exc : {"none"}, rates : {"object"},
     body : {Body(JMissing, JMissing)}]
    \cup
    [kind : {"notjson"}, exc : JsonErrors, rates : {"object"},
     body : {Body(JMissing, JMissing)}]
    \cup
    (IF client = "CoinGeckoClient" THEN {}
     ELSE [kind : {"ok"}, exc : {"none"}, rates : {"missing", "notobject"},
           body : {Body(JMissing, JMissing)}])

\* Every exchange the network can produce for a client in which at most
\* the first configured code is quoted, the numbers being among raws.
ResponsesOver(client, raws) ==
    BrokenResponses(client)
    \cup
    [kind : {"ok"}, exc : {"none"}, rates : {"object"},
     body : {Body(v, JMissing) : v \in ValuesOver(client, raws)}]

\* Every exchange the network can produce for a client, each of the
\* later codes holding the same value, the numbers being among raws.
WideResponsesOver(client, raws) ==
    BrokenResponses(client)
    \cup
    [kind : {"ok"}, exc : {"none"}, rates : {"object"},
     body : {Body(v, w) : v, w \in ValuesOver(client, raws)}]

\* Every exchange the network can produce for a client during a refresh.
Responses(client) ==
    ResponsesOver(client, RawRates)
    \cup
    [kind : {"ok"}, exc : {"none"}, rates : {"object"}, body : {Body(JNum(2), JNum(4))}]

\* The exchanges of the runs that race: a transport failure or a
\* well-formed answer.
RacingResponses(client) ==
    {r \in Responses(client) :
        \/ r.kind = "network"
        \/ r.kind = "ok" /\ r.rates = "object" /\ r.body = Body(JNum(2), JMissing)}

\* ------------------------------------------------------------------------
\* Storage (parser_service/storage.py).
\* ------------------------------------------------------------------------

NoFile == [st |-> "none", data |-> <<>>]

PartialFile == [st |-> "partial", data |-> <<>>]

FullFile(data) == [st |-> "full", data |-> data]

\* {"pairs": {}, "last_refresh": None}
EmptySnapshot == [pairs |-> EmptyDict, last_refresh |-> None]

\* RatesSnapshotStorage.read_snapshot: the parsed document, or the empty
\* snapshot when open or json.load raises.
read_snapshot(file) ==
    IF file.st = "full" THEN file.data ELSE EmptySnapshot

\* The payload of RatesSnapshotStorage.write_snapshot.
SnapshotPayload(pairs, now_iso) ==
    [pairs |-> pairs, last_refresh |-> now_iso]

\* The read half of ExchangeHistoryStorage.append_record.
read_history(file) ==
    IF file.st = "full" THEN file.data ELSE <<>>

\* A log restarted from the record alone (data = [] whatever was read).
append_record_restarting(data, record) == <<record>>

\* data.append(record)
append_record(data, record) == Append(data, record)

\* The constructors of the two stores, which RatesUpdater.__init__ calls:
\* each writes its empty document when its file does not exist.
construct_stores(files) ==
    [files EXCEPT
        ![EXCHANGE_HISTORY_FILE] =
            IF @.st = "none" THEN FullFile(<<>>) ELSE @,
        ![RATES_FILE] =
            IF @.st = "none" THEN FullFile(EmptySnapshot) ELSE @]

\* The JSON text written through the path itself (open(path, "w")).
DumpInPlace(path, tmp) == path

\* atomic_write writes the JSON text through the descriptor mkstemp
\* returned, never through the path itself.
DumpTarget(path, tmp) == tmp

\* ------------------------------------------------------------------------
\* RatesUpdater (parser_service/updater.py).
\* ------------------------------------------------------------------------

NoSource == "none"

\* str.strip().lower() on the source names the model passes.
StripLower(s) ==
    CASE s = " CoinGecko " -> "coingecko"
      [] s = "Exchange_Rate" -> "exchange_rate"
      [] OTHER -> s

exchangerate_aliases ==
    {"exchangerate", "exchange_rate", "exchange-rate", "exchangerate-api"}

\* _select_clients_by_source ignoring the source.
select_all_clients(source) == Clients

\* RatesUpdater._select_clients_by_source
select_clients_by_source(source) ==
    IF source = NoSource THEN Clients
    ELSE SelectSeq(Clients,
            LAMBDA c :
                \/ c = "CoinGeckoClient" /\ StripLower(source) = "coingecko"
                \/ /\ c = "ExchangeRateApiClient"
                   /\ StripLower(source) \in exchangerate_aliases)

\* The source arguments a caller passes.
Sources == {NoSource, " CoinGecko ", "exchangerate", "bogus"}

\* The source arguments of the runs that race.
RacingSources == {NoSource, "exchangerate"}

\* combined_pairs = {}: a merge that starts from nothing.
StartFromNothing(existing_snapshot) == EmptyDict

\* existing_pairs = existing_snapshot.get("pairs", {}); .copy()
StartCombined(existing_snapshot) ==
    IF Has(existing_snapshot, "pairs") THEN existing_snapshot.pairs
    ELSE EmptyDict

\* RatesUpdater._get_timestamp (every quote of the two clients carries
\* "updated_at").
get_timestamp(meta) == meta.updated_at

\* The history record _process_client_data builds for one quote.
HistoryRecord(pair_key, meta) ==
    [id |-> <<SplitKey(pair_key)[1], SplitKey(pair_key)[2],
              get_timestamp(meta)>>,
     from_currency |-> SplitKey(pair_key)[1],
     to_currency |-> SplitKey(pair_key)[2],
     rate |-> meta.rate,
     timestamp |-> get_timestamp(meta),
     source |-> meta.source,
     meta |-> meta.meta]

\* The entry keeping updated_at only for a rate of 1 or more: of the two
\* directions of a quote above 1, the derived one loses its timestamp.
EntryOfDirection(meta) ==
    [rate |-> meta.rate,
     updated_at |-> IF meta.rate[1] >= meta.rate[2]
                    THEN meta.updated_at
                    ELSE <<>>,
     source |-> meta.source]

\* The snapshot entry a quote becomes.
Entry(meta) ==
    [rate |-> meta.rate, updated_at |-> meta.updated_at,
     source |-> meta.source]

\* "existing is not None and ...": a key the mapping lacks is never added.
update_known_keys_only(combined_pairs, pair_key, meta) ==
    IF /\ Has(combined_pairs, pair_key)
       /\ StrLess(combined_pairs[pair_key].updated_at, meta.updated_at)
    THEN DictSet(combined_pairs, pair_key, Entry(meta))
    ELSE combined_pairs

\* RatesUpdater._update_combined_pairs
update_combined_pairs(combined_pairs, pair_key, meta) ==
    IF \/ ~Has(combined_pairs, pair_key)
       \/ StrLess(combined_pairs[pair_key].updated_at, meta.updated_at)
    THEN DictSet(combined_pairs, pair_key, Entry(meta))
    ELSE combined_pairs

\* "except Exception": every failure inside the client loop recorded.
CatchesAny(exc) == TRUE

\* "except ApiRequestError" in run_update.
Catches(exc) == exc = "ApiRequestError"

\* _build_result reporting the number of fetched quotes as the total.
build_result_counting_fetched(combined_pairs, total_fetched, errors) ==
    [total |-> total_fetched,
     fetched |-> total_fetched,
     errors |-> errors]

\* RatesUpdater._build_result (its own last_refresh is left out: it is a
\* clock reading of another format that nothing reads back).
build_result(combined_pairs, total_fetched, errors) ==
    [total |-> Cardinality(DOMAIN combined_pairs),
     fetched |-> total_fetched,
     errors |-> errors]

NoResult == [total |-> 0, fetched |-> 0, errors |-> <<>>]

\* ------------------------------------------------------------------------
\* State.
\* ------------------------------------------------------------------------

VARIABLES
    fs,             \* the data directory: file name -> [st, data]
    now,            \* the wall clock, in seconds
    pc,             \* where each thread of control is
    source,         \* run_update's argument
    existing,       \* existing_snapshot, as read at the start of the run
    combined,       \* combined_pairs
    errors,         \* errors
    total_fetched,  \* total_fetched
    targets,        \* the clients still to be tried, in order
    last,           \* the last fetch: [client, resp, status]
    pending,        \* the quotes of the current batch still to be processed
    payload,        \* the data atomic_write is writing
    wpath,          \* the path atomic_write is writing to
    result,         \* what run_update returned
    exc,            \* the exception that left run_update, or "none"
    started,        \* how many runs each thread has started
    faults,         \* how many storage faults have happened
    hist0,          \* history variable: the log when the run started
    got,            \* history variable: the quotes of the batches fetched
    tried,          \* history variable: client -> how its fetch ended
    broke,          \* history variable: atomic_write raised in this run
    call,           \* the read-side operation last called, with its arguments
    answer,         \* what that operation returned, or the exception it raised
    stop_event,     \* each scheduler's _stop_event flag
    thread,         \* each scheduler's _thread and where its _loop is
    caller,         \* the scheduler method the foreground is inside
    joined,         \* history variable: how each scheduler's last stop() ended
    elapsed,        \* history variable: the intervals each loop waited out
    method          \* history variable: the method last called on each scheduler

vars == <<fs, now, pc, source, existing, combined, errors, total_fetched,
          targets, last, pending, payload, wpath, result, exc, started,
          faults, hist0, got, tried, broke, call, answer, stop_event,
          thread, caller, joined, elapsed, method>>

\* What the read side owns.
readvars == <<call, answer>>

\* What the schedulers own.
schedvars == <<stop_event, thread, caller, joined, elapsed, method>>

\* The thread is not inside run_update.
Outside(p) == pc[p] \in {"idle", "done", "raised"}

NoFetch == [client |-> "none", resp |-> "none", status |-> "none"]

NotTried == [c \in {"CoinGeckoClient", "ExchangeRateApiClient"} |-> "no"]

\* No read-side operation has been called.
NoCall == [op |-> "none"]

\* The foreground is in no scheduler method.
NoMethod == [op |-> "none", s |-> 0]

NoAnswer == [kind |-> "none"]

\* A snapshot document left by an earlier session.
SeedEntry(rate, ts) ==
    [rate |-> rate, updated_at |-> ts, source |-> "CoinGecko"]

SeedSnapshots ==
    {EmptyDict, EmptySnapshot}
    \cup
    {[pairs |-> [k \in {PairKey("BTC", "USD"), PairKey("SOL", "USD")} |->
                    SeedEntry(Float(3), ts)],
      last_refresh |-> FormatTs(0)] :
        ts \in {<<>>, FormatTs(1), FormatTs(MaxClock)}}

\* Nothing has been called yet, at one of the clock values clocks.
Idle(clocks) ==
    /\ now \in clocks
    /\ pc = [p \in Threads |-> "idle"]
    /\ source = [p \in Threads |-> NoSource]
    /\ existing = [p \in Threads |-> EmptySnapshot]
    /\ combined = [p \in Threads |-> EmptyDict]
    /\ errors = [p \in Threads |-> <<>>]
    /\ total_fetched = [p \in Threads |-> 0]
    /\ targets = [p \in Threads |-> <<>>]
    /\ last = [p \in Threads |-> NoFetch]
    /\ pending = [p \in Threads |-> <<>>]
    /\ payload = [p \in Threads |-> <<>>]
    /\ wpath = [p \in Threads |-> "none"]
    /\ result = [p \in Threads |-> NoResult]
    /\ exc = [p \in Threads |-> "none"]
    /\ started = [p \in Threads |-> 0]
    /\ faults = 0
    /\ hist0 = [p \in Threads |-> <<>>]
    /\ got = [p \in Threads |-> <<>>]
    /\ tried = [p \in Threads |-> NotTried]
    /\ broke = [p \in Threads |-> FALSE]
    /\ call = NoCall
    /\ answer = NoAnswer
    /\ stop_event = [s \in Scheds |-> FALSE]
    /\ thread = [s \in Scheds |-> "absent"]
    /\ caller = NoMethod
    /\ joined = [s \in Scheds |-> "no"]
    /\ elapsed = [s \in Scheds |-> 0]
    /\ method = [s \in Scheds |-> "none"]

\* The state before any operation, over a data directory whose snapshot
\* file is one of files, at one of the clock values clocks.
InitWith(files, clocks) ==
    /\ \E file \in files :
          fs = [f \in Files |->
                  CASE f = RATES_FILE -> file
                    [] f = EXCHANGE_HISTORY_FILE -> FullFile(<<>>)
                    [] OTHER -> NoFile]
    /\ Idle(clocks)

\* The state once both stores are constructed over a data directory whose
\* snapshot is one of snaps.
InitOver(snaps) == InitWith({FullFile(snap) : snap \in snaps}, {1})

\* A fresh data directory: the stores' constructors wrote the empty
\* snapshot and the empty log.
Init == InitOver({EmptySnapshot})

\* A data directory in which neither store has been constructed yet: no
\* snapshot file and no log.
InitBare ==
    /\ fs = [f \in Files |-> NoFile]
    /\ Idle({1})

\* A data directory that may hold an earlier session's snapshot.
InitSeq == InitOver(SeedSnapshots) \/ InitBare

\* ------------------------------------------------------------------------
\* Actions.
\* ------------------------------------------------------------------------

\* The wall clock advances, at any moment.  It is read by the providers'
\* clients (ts), by write_snapshot (now_iso) and by the freshness check.
Tick ==
    /\ now < MaxClock
    /\ now' = now + 1
    /\ UNCHANGED <<fs, pc, source, existing, combined, errors,
                   total_fetched, targets, last, pending, payload, wpath,
                   result, exc, started, faults, hist0, got, tried, broke>>
    /\ UNCHANGED readvars
    /\ UNCHANGED schedvars

\* run_update(source) up to the client loop (lines 49-62), entered by
\* thread p over the data directory files.
BeginRun(p, src, files) ==
    /\ fs' = files
    /\ LET snap == read_snapshot(files[RATES_FILE])
       IN  /\ existing' = [existing EXCEPT ![p] = snap]
           /\ combined' = [combined EXCEPT ![p] = StartCombined(snap)]
    /\ source' = [source EXCEPT ![p] = src]
    /\ errors' = [errors EXCEPT ![p] = <<>>]
    /\ total_fetched' = [total_fetched EXCEPT ![p] = 0]
    /\ targets' = [targets EXCEPT ![p] = select_clients_by_source(src)]
    /\ last' = [last EXCEPT ![p] = NoFetch]
    /\ pending' = [pending EXCEPT ![p] = <<>>]
    /\ payload' = [payload EXCEPT ![p] = <<>>]
    /\ wpath' = [wpath EXCEPT ![p] = "none"]
    /\ result' = [result EXCEPT ![p] = NoResult]
    /\ exc' = [exc EXCEPT ![p] = "none"]
    /\ started' = [started EXCEPT ![p] = @ + 1]
    /\ hist0' = [hist0 EXCEPT ![p] = read_history(files[EXCHANGE_HISTORY_FILE])]
    /\ got' = [got EXCEPT ![p] = <<>>]
    /\ tried' = [tried EXCEPT ![p] = NotTried]
    /\ broke' = [broke EXCEPT ![p] = FALSE]
    /\ pc' = [pc EXCEPT ![p] = "fetch"]
    /\ UNCHANGED <<now, faults>>
    /\ UNCHANGED readvars

\* A call of run_update(source): "fg" is the update-rates command
\* (usecases.py lines 552-558), which constructs a RatesUpdater, and with
\* it the two stores, before it calls run_update(source); "bg" is an
\* iteration of SimpleScheduler._loop, which calls run_update().  With
\* alone, the scheduler has not been started: the foreground's runs follow
\* one another.
StartRun(p, src, alone) ==
    /\ Outside(p)
    /\ started[p] < (IF alone THEN MaxRuns ELSE MaxRacing)
    /\ p = "bg" => src = NoSource
    /\ alone => p = "fg"
    /\ BeginRun(p, src, IF p = "fg" THEN construct_stores(fs) ELSE fs)
    /\ UNCHANGED schedvars

\* One turn of the client loop (lines 64-77) up to the first history
\* append: client.fetch_rates() and what run_update does with its outcome.
Fetch(p, resp) ==
    /\ pc[p] = "fetch"
    /\ targets[p] # <<>>
    /\ LET client == Head(targets[p])
           o == fetch_rates(client, resp, FormatTs(now))
       IN  /\ last' = [last EXCEPT ![p] =
                          [client |-> client, resp |-> resp,
                           status |-> o.status]]
           /\ tried' = [tried EXCEPT ![p][client] = o.status]
           /\ IF o.status = "ok"
              THEN /\ total_fetched' =
                          [total_fetched EXCEPT ![p] = @ + Len(o.pairs)]
                   /\ got' = [got EXCEPT ![p] = @ \o o.pairs]
                   /\ pending' = [pending EXCEPT ![p] = o.pairs]
                   /\ IF o.pairs = <<>>
                      THEN /\ targets' = [targets EXCEPT ![p] = Tail(@)]
                           /\ pc' = pc
                      ELSE /\ targets' = targets
                           /\ pc' = [pc EXCEPT ![p] = "append"]
                   /\ UNCHANGED <<errors, exc>>
              ELSE IF Catches(o.status)
              THEN /\ errors' = [errors EXCEPT ![p] = Append(@, o.msg)]
                   /\ targets' = [targets EXCEPT ![p] = Tail(@)]
                   /\ UNCHANGED <<total_fetched, got, pending, pc, exc>>
              ELSE /\ exc' = [exc EXCEPT ![p] = o.status]
                   /\ pc' = [pc EXCEPT ![p] = "raised"]
                   /\ UNCHANGED <<total_fetched, got, pending, targets,
                                  errors>>
    /\ UNCHANGED <<fs, now, source, existing, combined, payload, wpath,
                   result, started, faults, hist0, broke>>
    /\ UNCHANGED readvars
    /\ UNCHANGED schedvars

\* history.append_record(record), its read half (storage.py lines 43-48):
\* the whole log is read and the record appended in memory.
AppendRead(p) ==
    /\ pc[p] = "append"
    /\ LET q == Head(pending[p])
           data == read_history(fs[EXCHANGE_HISTORY_FILE])
       IN  payload' = [payload EXCEPT ![p] =
                          append_record(data, HistoryRecord(q.key, q.meta))]
    /\ wpath' = [wpath EXCEPT ![p] = EXCHANGE_HISTORY_FILE]
    /\ pc' = [pc EXCEPT ![p] = "w_open"]
    /\ UNCHANGED <<fs, now, source, existing, combined, errors,
                   total_fetched, targets, last, pending, result, exc,
                   started, faults, hist0, got, tried, broke>>
    /\ UNCHANGED readvars
    /\ UNCHANGED schedvars

\* After the client loop (lines 79-89): write_snapshot(combined_pairs) when
\* there is any pair, else the result at once.
AfterClients(p) ==
    /\ pc[p] = "fetch"
    /\ targets[p] = <<>>
    /\ last' = [last EXCEPT ![p] = NoFetch]
    /\ IF combined[p] # EmptyDict
       THEN /\ payload' = [payload EXCEPT ![p] =
                              SnapshotPayload(combined[p], FormatTs(now))]
            /\ wpath' = [wpath EXCEPT ![p] = RATES_FILE]
            /\ pc' = [pc EXCEPT ![p] = "w_open"]
            /\ UNCHANGED result
       ELSE /\ result' = [result EXCEPT ![p] =
                             build_result(combined[p], total_fetched[p],
                                          errors[p])]
            /\ pc' = [pc EXCEPT ![p] = "done"]
            /\ UNCHANGED <<payload, wpath>>
    /\ UNCHANGED <<fs, now, source, existing, combined, errors,
                   total_fetched, targets, pending, exc, started, faults,
                   hist0, got, tried, broke>>
    /\ UNCHANGED readvars
    /\ UNCHANGED schedvars

\* atomic_write, mkstemp and the opening of the descriptor (lines 19-21):
\* the file the text goes to exists and is not complete.
WriteOpen(p) ==
    /\ pc[p] = "w_open"
    /\ fs' = [fs EXCEPT ![DumpTarget(wpath[p], TmpFile(p))] = PartialFile]
    /\ pc' = [pc EXCEPT ![p] = "w_dump"]
    /\ UNCHANGED <<now, source, existing, combined, errors, total_fetched,
                   targets, last, pending, payload, wpath, result, exc,
                   started, faults, hist0, got, tried, broke>>
    /\ UNCHANGED readvars
    /\ UNCHANGED schedvars

\* atomic_write, json.dump and the close of the descriptor (lines 21-22).
WriteDump(p) ==
    /\ pc[p] = "w_dump"
    /\ fs' = [fs EXCEPT ![DumpTarget(wpath[p], TmpFile(p))] =
                 FullFile(payload[p])]
    /\ pc' = [pc EXCEPT ![p] = "w_replace"]
    /\ UNCHANGED <<now, source, existing, combined, errors, total_fetched,
                   targets, last, pending, payload, wpath, result, exc,
                   started, faults, hist0, got, tried, broke>>
    /\ UNCHANGED readvars
    /\ UNCHANGED schedvars

\* atomic_write, os.replace(tmp, path) (line 23), and what the caller does
\* next: after a history append, _update_combined_pairs for the quote and
\* the next quote or client; after write_snapshot, the result.
WriteReplace(p) ==
    /\ pc[p] = "w_replace"
    /\ fs' = [fs EXCEPT ![wpath[p]] = fs[TmpFile(p)],
                        ![TmpFile(p)] = NoFile]
    /\ wpath' = [wpath EXCEPT ![p] = "none"]
    /\ payload' = [payload EXCEPT ![p] = <<>>]
    /\ IF wpath[p] = EXCHANGE_HISTORY_FILE
       THEN LET q == Head(pending[p])
                rest == Tail(pending[p])
            IN  /\ combined' = [combined EXCEPT ![p] =
                       update_combined_pairs(@, q.key, q.meta)]
                /\ pending' = [pending EXCEPT ![p] = rest]
                /\ IF rest = <<>>
                   THEN /\ targets' = [targets EXCEPT ![p] = Tail(@)]
                        /\ pc' = [pc EXCEPT ![p] = "fetch"]
                   ELSE /\ targets' = targets
                        /\ pc' = [pc EXCEPT ![p] = "append"]
                /\ UNCHANGED result
       ELSE /\ result' = [result EXCEPT ![p] =
                             build_result(combined[p], total_fetched[p],
                                          errors[p])]
            /\ pc' = [pc EXCEPT ![p] = "done"]
            /\ UNCHANGED <<combined, pending, targets>>
    /\ UNCHANGED <<now, source, existing, errors, total_fetched, last, exc,
                   started, faults, hist0, got, tried, broke>>
    /\ UNCHANGED readvars
    /\ UNCHANGED schedvars

\* atomic_write, the except branch (lines 24-29): json.dump or os.replace
\* raised (a full disk, a refused replace); the temporary file is removed
\* and the exception raised again.  Inside the client loop run_update's
\* handler sees it; after the loop nothing does.
WriteFail(p) ==
    /\ pc[p] \in {"w_dump", "w_replace"}
    /\ faults < MaxFaults
    /\ faults' = faults + 1
    /\ broke' = [broke EXCEPT ![p] = TRUE]
    /\ fs' = [fs EXCEPT ![TmpFile(p)] = NoFile]
    /\ IF wpath[p] = EXCHANGE_HISTORY_FILE /\ Catches("OSError")
       THEN /\ errors' = [errors EXCEPT ![p] = Append(@, <<"OSError", "">>)]
            /\ targets' = [targets EXCEPT ![p] = Tail(@)]
            /\ pending' = [pending EXCEPT ![p] = <<>>]
            /\ pc' = [pc EXCEPT ![p] = "fetch"]
            /\ UNCHANGED exc
       ELSE /\ exc' = [exc EXCEPT ![p] = "OSError"]
            /\ pc' = [pc EXCEPT ![p] = "raised"]
            /\ UNCHANGED <<errors, targets, pending>>
    /\ UNCHANGED <<now, source, existing, combined, total_fetched, last,
                   payload, wpath, result, started, hist0, got, tried>>
    /\ UNCHANGED readvars
    /\ UNCHANGED schedvars

\* The scheduler thread and the foreground run side by side, on a sound
\* disk.
Next ==
    \/ Tick
    \/ \E p \in Procs, src \in RacingSources : StartRun(p, src, FALSE)
    \/ \E p \in Procs :
          /\ targets[p] # <<>>
          /\ \E resp \in RacingResponses(Head(targets[p])) : Fetch(p, resp)
    \/ \E p \in Procs : AppendRead(p)
    \/ \E p \in Procs : AfterClients(p)
    \/ \E p \in Procs : WriteOpen(p)
    \/ \E p \in Procs : WriteDump(p)
    \/ \E p \in Procs : WriteReplace(p)

Spec == Init /\ [][Next]_vars

\* One run at a time, every exchange the network can produce, and a disk
\* that may fail.
NextSeq ==
    \/ Tick
    \/ \E p \in Procs, src \in Sources : StartRun(p, src, TRUE)
    \/ \E p \in Procs :
          /\ targets[p] # <<>>
          /\ \E resp \in Responses(Head(targets[p])) : Fetch(p, resp)
    \/ \E p \in Procs : AppendRead(p)
    \/ \E p \in Procs : AfterClients(p)
    \/ \E p \in Procs : WriteOpen(p)
    \/ \E p \in Procs : WriteDump(p)
    \/ \E p \in Procs : WriteReplace(p)
    \/ \E p \in Procs : WriteFail(p)

SpecSeq == InitSeq /\ [][NextSeq]_vars

\* ------------------------------------------------------------------------
\* Vocabulary of the properties.
\* ------------------------------------------------------------------------

\* What a reader of the snapshot file obtains now.
Persisted == read_snapshot(fs[RATES_FILE])

\* The pairs of a snapshot document: none when it has no "pairs" member.
PairsOf(doc) == IF Has(doc, "pairs") THEN doc.pairs ELSE EmptyDict

\* The last_refresh of a snapshot document: None when it has no such member.
LastRefreshOf(doc) ==
    IF Has(doc, "last_refresh") THEN doc.last_refresh ELSE None

\* The history log on disk.
HistoryLog == read_history(fs[EXCHANGE_HISTORY_FILE])

\* The pair keys of the batches the run fetched.
GotKeys(p) == {got[p][i].key : i \in 1..Len(got[p])}

\* The history records of the first n quotes the run fetched.
Records(p, n) == [i \in 1..n |-> HistoryRecord(got[p][i].key, got[p][i].meta)]

\* s is a prefix of t.
IsPrefix(s, t) == Len(s) <= Len(t) /\ SubSeq(t, 1, Len(s)) = s

\* run_update returned.
Returned(p) == pc[p] = "done"

\* run_update returned or raised.
Ended(p) == pc[p] \in {"done", "raised"}

\* The quote is strictly newer than the entry the run read for its key, or
\* the run read no entry for it.
Newer(p, q) ==
    \/ ~Has(PairsOf(existing[p]), q.key)
    \/ StrLess(PairsOf(existing[p])[q.key].updated_at, q.meta.updated_at)

\* The quote is not older than the entry the run read for its key.
NotOlder(p, q) ==
    \/ ~Has(PairsOf(existing[p]), q.key)
    \/ ~StrLess(q.meta.updated_at, PairsOf(existing[p])[q.key].updated_at)

\* ------------------------------------------------------------------------
\* C1.  Merge recency.
\* ------------------------------------------------------------------------

\* C1: after a run, the persisted entry of every fetched pair key is the
\* incoming quote if and only if the quote's updated_at is greater than or
\* equal to the existing entry's (T2 >= T1, an absent entry counting as
\* older); otherwise the existing entry survives.
C1_ReplacesWhenNotOlder ==
    \A p \in Procs :
        Returned(p) =>
            \A i \in 1..Len(got[p]) :
                LET q == got[p][i]
                IN  /\ Has(PairsOf(Persisted), q.key)
                    /\ PairsOf(Persisted)[q.key] =
                          IF NotOlder(p, q) THEN Entry(q.meta)
                          ELSE PairsOf(existing[p])[q.key]

\* ------------------------------------------------------------------------
\* C2.  A run without quotes.
\* ------------------------------------------------------------------------

\* C2: a run that produced no quotes leaves the persisted snapshot exactly
\* as it read it, pairs and last_refresh alike, and reports fetched = 0.
C2_NoQuotesNoWrite ==
    \A p \in Procs :
        (Returned(p) /\ got[p] = <<>>) =>
            /\ Persisted = existing[p]
            /\ result[p].fetched = 0

\* ------------------------------------------------------------------------
\* C3.  Carry-forward.
\* ------------------------------------------------------------------------

\* C3: the pair keys of the persisted snapshot never shrink, and when a run
\* returns, every pair key it read at its start and fetched from no
\* provider is persisted with the entry it read.
C3_CarryStep ==
    /\ DOMAIN PairsOf(Persisted) \subseteq DOMAIN PairsOf(Persisted')
    /\ \A p \in Procs :
          (~Returned(p) /\ Returned(p)') =>
              \A k \in (DOMAIN PairsOf(existing[p])) \ GotKeys(p) :
                  /\ Has(PairsOf(Persisted'), k)
                  /\ PairsOf(Persisted')[k] = PairsOf(existing[p])[k]

C3_CarryForward == [][C3_CarryStep]_vars

\* A run returned that fetched quotes and had read an entry for a key no
\* provider returned; the entry is persisted as read.
C3_Witness ==
    \E p \in Procs :
        /\ Returned(p)
        /\ got[p] # <<>>
        /\ \E k \in (DOMAIN PairsOf(existing[p])) \ GotKeys(p) :
              /\ Has(PairsOf(Persisted), k)
              /\ PairsOf(Persisted)[k] = PairsOf(existing[p])[k]
              /\ LastRefreshOf(Persisted) # LastRefreshOf(existing[p])

\* ------------------------------------------------------------------------
\* C4.  Partial failure.
\* ------------------------------------------------------------------------

\* Both clients were tried, one fetch succeeded and the other failed.
OneOfTwoFailed(p) ==
    \E ok, bad \in {"CoinGeckoClient", "ExchangeRateApiClient"} :
        /\ ok # bad
        /\ tried[p][ok] = "ok"
        /\ tried[p][bad] \notin {"ok", "no"}

\* C4: when exactly one of the two providers fails (the other returned a
\* batch of quotes, and the disk is sound), the run does not raise, every
\* pair of the successful batch is persisted and the result carries
\* exactly one error string.
C4_PartialFailure ==
    \A p \in Procs :
        (Ended(p) /\ OneOfTwoFailed(p) /\ got[p] # <<>> /\ ~broke[p]) =>
            /\ Returned(p)
            /\ GotKeys(p) \subseteq DOMAIN PairsOf(Persisted)
            /\ Len(result[p].errors) = 1

\* ------------------------------------------------------------------------
\* C5.  Provider failure contract.
\* ------------------------------------------------------------------------

\* The exchange is one the contract calls a failure: the network failed,
\* the status is not 2xx, the body is no JSON or JSON of another shape, or
\* an expected field is missing (the fiat source's rates object, the
\* crypto source's entry for a requested asset id).
Defective(client, resp) ==
    \/ resp.kind \in FailKinds
    \/ client = "ExchangeRateApiClient" /\ resp.rates # "object"
    \/ /\ client = "CoinGeckoClient"
       /\ \E i \in 1..Len(CRYPTO_CODES) : resp.body[CRYPTO_CODES[i]].t # "num"

\* C5: a fetch over a defective exchange fails with ApiRequestError and
\* with no other exception type, and never reports success.
C5_ProviderError ==
    \A p \in Procs :
        (last[p].client # "none" /\ Defective(last[p].client, last[p].resp))
            => last[p].status = "ApiRequestError"

\* ------------------------------------------------------------------------
\* C6.  Atomic snapshot visibility.
\* ------------------------------------------------------------------------

\* The thread is inside atomic_write for the snapshot.
WritingSnapshot(p) ==
    pc[p] \in {"w_dump", "w_replace"} /\ wpath[p] = RATES_FILE

\* The snapshot file changes only by a writer's replace, and then to the
\* whole document that writer composed.
C6_ReplaceStep ==
    fs'[RATES_FILE] # fs[RATES_FILE] =>
        \E p \in Procs :
            /\ pc[p] = "w_replace"
            /\ wpath[p] = RATES_FILE
            /\ fs'[RATES_FILE] = FullFile(payload[p])

\* C6: at every point of every interleaving the snapshot file holds a
\* complete document, the previous one until a writer's replace and the
\* writer's new one from then on; a reader never meets a partial or empty
\* file.
C6_AtomicVisibility ==
    /\ fs[RATES_FILE].st = "full"
    /\ [][C6_ReplaceStep /\ fs'[RATES_FILE].st = "full"]_vars

\* A writer is between the opening of its temporary file and the replace,
\* the temporary file is not complete, and the other thread has just read
\* the snapshot: it holds the complete previous document, which is not the
\* writer's.
C6_Witness ==
    \E p, q \in Procs :
        /\ p # q
        /\ WritingSnapshot(p)
        /\ fs[TmpFile(p)].st = "partial"
        /\ pc[q] = "fetch" /\ last[q].client = "none"
        /\ existing[q] = fs[RATES_FILE].data
        /\ existing[q] # payload[p]

\* ------------------------------------------------------------------------
\* C7.  Persistence failure.
\* ------------------------------------------------------------------------

\* How many quotes of the run are through their history append.
Processed(p) == Len(got[p]) - Len(pending[p])

\* The provider failures the run's handler recorded.
ProviderFailures(p) ==
    {c \in {"CoinGeckoClient", "ExchangeRateApiClient"} :
        tried[p][c] = "ApiRequestError"}

\* C7: when atomic_write fails during a run, the file it was writing still
\* holds its prior content (the snapshot as read, or the log with the
\* records appended so far), no temporary file is left, and the failure
\* leaves run_update as a raised error: no result is returned and the
\* error list holds the provider failures only.
C7_PersistenceFailure ==
    \A p \in Procs :
        broke[p] =>
            /\ pc[p] = "raised"
            /\ exc[p] = "OSError"
            /\ result[p] = NoResult
            /\ Len(errors[p]) = Cardinality(ProviderFailures(p))
            /\ fs[TmpFile(p)] = NoFile
            /\ fs[RATES_FILE] = FullFile(existing[p])
            /\ fs[EXCHANGE_HISTORY_FILE] =
                  FullFile(hist0[p] \o Records(p, Processed(p)))

\* atomic_write failed while writing the snapshot of a run that had read a
\* non-empty snapshot and fetched quotes.
C7_Witness ==
    \E p \in Procs :
        /\ broke[p]
        /\ wpath[p] = RATES_FILE
        /\ PairsOf(existing[p]) # EmptyDict
        /\ got[p] # <<>>

\* ------------------------------------------------------------------------
\* C8.  History audit trail.
\* ------------------------------------------------------------------------

\* C8: when a run ends (no other writer interleaved, no storage fault), the
\* history log is the log as it was when the run started followed by one
\* record per quote of every successful batch, in processing order,
\* whether or not the quote entered the snapshot.
C8_AuditTrail ==
    \A p \in Procs :
        (Ended(p) /\ ~broke[p]) =>
            HistoryLog = hist0[p] \o Records(p, Len(got[p]))

\* A run returned over a log that already held records; one of its quotes
\* lost the recency comparison, is not in the snapshot, and is in the log.
C8_Witness ==
    \E p \in Procs :
        /\ Returned(p)
        /\ hist0[p] # <<>>
        /\ \E i \in 1..Len(got[p]) :
              LET q == got[p][i]
              IN  /\ ~Newer(p, q)
                  /\ PairsOf(Persisted)[q.key] # Entry(q.meta)
                  /\ HistoryLog[Len(hist0[p]) + i] =
                        HistoryRecord(q.key, q.meta)

\* ------------------------------------------------------------------------
\* C9.  The history log under racing appends.
\* ------------------------------------------------------------------------

\* C9: every persisted history document extends the one before it.
C9_AppendOnlyStep == IsPrefix(HistoryLog, HistoryLog')

C9_AppendOnly == [][C9_AppendOnlyStep]_vars

\* ------------------------------------------------------------------------
\* C10.  Lost update between racing merges.
\* ------------------------------------------------------------------------

\* C10: nothing excludes the other run between a run's read and its write:
\* once both runs have returned, the persisted pairs are those one of them
\* read at its start together with those it fetched itself (the last
\* writer's), whatever the other run persisted in between.
C10_LastWriterWins ==
    (\A p \in Procs : Returned(p)) =>
        \E w \in Procs :
            DOMAIN PairsOf(Persisted) =
                (DOMAIN PairsOf(existing[w])) \cup GotKeys(w)

\* Both runs fetched, met no error and returned, and a pair one of them
\* fetched is not in the persisted snapshot.
C10_Witness ==
    /\ \A p \in Procs :
          Returned(p) /\ result[p].errors = <<>> /\ got[p] # <<>>
    /\ \E p \in Procs : ~(GotKeys(p) \subseteq DOMAIN PairsOf(Persisted))

\* ------------------------------------------------------------------------
\* The read side: the conversion resolver (core/usecases.py).
\* ------------------------------------------------------------------------

\* How many frames the interpreter allows a recursion (sys.getrecursionlimit,
\* cut down): one more raises RecursionError.
RecursionLimit == 3

\* load_json(path) for the rates file: the document, or {} when the file is
\* missing or is not JSON.
load_json(file) == IF file.st = "full" THEN file.data ELSE EmptyDict

\* dict.get(k, default)
DictGet(d, k, default) == IF k \in DOMAIN d THEN d[k] ELSE default

\* The test of the rate reduced to "rate is not None".
RatePresent(rate) == rate # None

\* "rate and rate > 0"
RateUsable(rate) == rate # None /\ rate[1] > 0

\* float * float
Mul(a, b) == <<a[1] * b[1], a[2] * b[2]>>

\* Equality of two floats given as fractions.
SameNumber(a, b) == a[1] * b[2] = b[1] * a[2]

\* Outcomes of a lookup: the rate or None, the step that produced it, the
\* deepest frame the lookup entered, and the steps of its two sub-lookups.
Resolved(rate, step, frame, legs) ==
    [rate |-> rate, step |-> step, depth |-> frame, legs |-> legs,
     raised |-> "none"]

RecursionError(frame) ==
    [rate |-> None, step |-> "none", depth |-> frame, legs |-> <<>>,
     raised |-> "RecursionError"]

\* Line 108 with the second test dropped.
BridgeUnlessFromUsd(from_currency, to_currency) == from_currency # "USD"

\* "if from_currency != "USD" and to_currency != "USD"" (line 108)
BridgeAllowed(from_currency, to_currency) ==
    from_currency # "USD" /\ to_currency # "USD"

\* The entry under key answers when it is there with a usable rate
\* (lines 95-98, 102-105).
EntryAnswers(exchange_pairs, key) ==
    /\ Has(exchange_pairs, key)
    /\ RateUsable(DictGet(exchange_pairs[key], "rate", None))

\* Lines 95-99 with the test of the rate dropped.
DirectWhenPresent(exchange_pairs, direct_key) == Has(exchange_pairs, direct_key)

\* The direct step answers (lines 95-99).
DirectAnswers(exchange_pairs, direct_key) ==
    EntryAnswers(exchange_pairs, direct_key)

\* Line 106 without the division.
ReverseAsIs(reverse_rate) == reverse_rate

\* "1.0 / float(reverse_rate)" (line 106)
FromReverse(reverse_rate) == Reciprocal(reverse_rate)

\* Line 112 with the legs the other way round: USD->from times to->USD.
BridgeBackwards(usd_to_from, usd_to_to) ==
    Mul(Reciprocal(usd_to_from), Reciprocal(usd_to_to))

\* "usd_to_from * usd_to_to" (line 112)
Bridged(usd_to_from, usd_to_to) == Mul(usd_to_from, usd_to_to)

\* "usd_to_from and usd_to_from > 0 and usd_to_to and usd_to_to > 0"
LegsUsable(usd_to_from, usd_to_to) ==
    RateUsable(usd_to_from) /\ RateUsable(usd_to_to)

\* The identity test leaving USD to the lookups.
SameNonUsd(from_currency, to_currency) ==
    from_currency = to_currency /\ from_currency # "USD"

\* "if from_currency == to_currency" (line 86), before the file is loaded.
SameCurrency(from_currency, to_currency) == from_currency = to_currency

\* _get_conversion_rate(from_currency, to_currency), entered at frame; the
\* rates file is loaded anew by every call.
RECURSIVE get_conversion_rate(_, _, _, _)
get_conversion_rate(from_currency, to_currency, file, frame) ==
    IF frame > RecursionLimit THEN RecursionError(frame)
    ELSE IF SameCurrency(from_currency, to_currency)
    THEN Resolved(Float(1), "identity", frame, <<>>)
    ELSE
    LET rates == load_json(file)
        exchange_pairs == DictGet(rates, "pairs", EmptyDict)
        direct_key == PairKey(from_currency, to_currency)
        reverse_key == PairKey(to_currency, from_currency)
    IN  IF DirectAnswers(exchange_pairs, direct_key)
        THEN Resolved(exchange_pairs[direct_key].rate, "direct", frame, <<>>)
        ELSE IF EntryAnswers(exchange_pairs, reverse_key)
        THEN Resolved(FromReverse(exchange_pairs[reverse_key].rate),
                      "inverse", frame, <<>>)
        ELSE IF BridgeAllowed(from_currency, to_currency)
        THEN LET usd_to_from ==
                     get_conversion_rate(from_currency, "USD", file, frame + 1)
             IN  IF usd_to_from.raised # "none" THEN usd_to_from
                 ELSE
                 LET usd_to_to ==
                         get_conversion_rate("USD", to_currency, file,
                                             frame + 1)
                     deepest == IF usd_to_from.depth > usd_to_to.depth
                                THEN usd_to_from.depth ELSE usd_to_to.depth
                     legs == <<usd_to_from.step, usd_to_to.step>>
                 IN  IF usd_to_to.raised # "none" THEN usd_to_to
                     ELSE IF LegsUsable(usd_to_from.rate, usd_to_to.rate)
                     THEN Resolved(Bridged(usd_to_from.rate, usd_to_to.rate),
                                   "bridge", deepest, legs)
                     ELSE Resolved(None, "none", deepest, legs)
        ELSE Resolved(None, "none", frame, <<>>)

\* The codes the lookups are asked about.
ResolverCodes == {"USD", "EUR", "BTC"}

ResolverKeys ==
    {PairKey(a, b) : a, b \in ResolverCodes} \
        {PairKey(a, a) : a \in ResolverCodes}

\* The rates an entry can carry: what a provider reported (zero and
\* negative included) or the inverse it derived.
StoredRates == {Float(-1), Float(0), Float(2), <<1, 4>>}

\* Snapshot documents: any entries under any of the keys.
ResolverSnapshots ==
    {[pairs |-> [k \in DOMAIN f |-> SeedEntry(f[k], FormatTs(0))],
      last_refresh |-> FormatTs(0)] :
        f \in UNION {[K -> StoredRates] : K \in SUBSET ResolverKeys}}

\* What can be at the path of the rates file: nothing, text that is not
\* JSON, the {} ensure_data_dir writes, or a snapshot.
ResolverFiles ==
    {NoFile, PartialFile, FullFile(EmptyDict)}
        \cup {FullFile(snap) : snap \in ResolverSnapshots}

\* Everything the refresh side owns.
updvars == <<fs, now, pc, source, existing, combined, errors, total_fetched,
             targets, last, pending, payload, wpath, result, exc, started,
             faults, hist0, got, tried, broke>>

\* What the refresh side owns beside the data directory.
runvars == <<now, pc, source, existing, combined, errors, total_fetched,
             targets, last, pending, payload, wpath, result, exc, started,
             faults, hist0, got, tried, broke>>

InitResolve == InitWith(ResolverFiles, {1})

\* ------------------------------------------------------------------------
\* A lookup step by step: every call of _get_conversion_rate loads the
\* rates file itself (line 91), so a lookup that goes through USD reads
\* the file three times, and a refresh may replace it in between.  The
\* record call of the operation in progress carries the lookup: from, to,
\* at ("leg1" and "leg2" before the two inner calls, "rated" once the
\* lookup has returned to its caller), usd_to_from (what the first inner
\* call returned), rated (what the lookup returned) and loads (the files
\* it loaded, in order).
\* ------------------------------------------------------------------------

\* The operation in progress is at step.
At(step) == Has(call, "at") /\ call.at = step

\* No lookup has been asked for yet.
NoLookup ==
    [from |-> "none", to |-> "none", at |-> "begin", usd_to_from |-> None,
     rated |-> None, loads |-> <<>>]

\* The outer call goes on to the two lookups against USD (lines 94-108):
\* neither the direct nor the reverse entry answered.
EntersBridge(from_currency, to_currency, file) ==
    LET exchange_pairs == DictGet(load_json(file), "pairs", EmptyDict)
    IN  /\ ~SameCurrency(from_currency, to_currency)
        /\ ~DirectAnswers(exchange_pairs,
                          PairKey(from_currency, to_currency))
        /\ ~EntryAnswers(exchange_pairs, PairKey(to_currency, from_currency))
        /\ BridgeAllowed(from_currency, to_currency)

\* _get_conversion_rate(from_currency, to_currency) up to its first
\* recursive call (lines 86-108), asked by the operation c: the identity
\* answers before any load; otherwise the outer frame loads the rates
\* file and either answers or goes on to the lookups against USD.
Asked(c, from_currency, to_currency, file) ==
    IF SameCurrency(from_currency, to_currency)
    THEN [from |-> from_currency, to |-> to_currency, at |-> "rated",
          rated |-> get_conversion_rate(from_currency, to_currency, file, 0)]
         @@ c
    ELSE IF EntersBridge(from_currency, to_currency, file)
    THEN [from |-> from_currency, to |-> to_currency, at |-> "leg1",
          loads |-> Append(c.loads, file)] @@ c
    ELSE [from |-> from_currency, to |-> to_currency, at |-> "rated",
          rated |-> get_conversion_rate(from_currency, to_currency, file, 0),
          loads |-> Append(c.loads, file)] @@ c

\* A command or a lookup asked for directly is between its call and its
\* return.
Converting == Has(call, "at") /\ call.at # "done"

\* A call of _get_conversion_rate(from_currency, to_currency), up to the
\* first recursive call.
ConvertOuter(from_currency, to_currency) ==
    /\ ~Converting
    /\ call' = Asked([op |-> "convert"] @@ NoLookup, from_currency,
                     to_currency, fs[RATES_FILE])
    /\ answer' = NoAnswer
    /\ UNCHANGED updvars
    /\ UNCHANGED schedvars

\* _get_conversion_rate(from_currency, "USD") (line 109): the inner call
\* loads the rates file anew; an exception it raises leaves the lookup.
ConvertLeg1 ==
    /\ At("leg1")
    /\ LET usd_to_from == get_conversion_rate(call.from, "USD",
                                              fs[RATES_FILE], 1)
       IN  call' =
              IF usd_to_from.raised # "none"
              THEN [at |-> "rated", rated |-> usd_to_from,
                    loads |-> Append(call.loads, fs[RATES_FILE])] @@ call
              ELSE [at |-> "leg2", usd_to_from |-> usd_to_from,
                    loads |-> Append(call.loads, fs[RATES_FILE])] @@ call
    /\ UNCHANGED answer
    /\ UNCHANGED updvars
    /\ UNCHANGED schedvars

\* _get_conversion_rate("USD", to_currency) and the product (lines
\* 110-114): the second inner call loads the rates file once more, and
\* the lookup returns to its caller.
ConvertLeg2 ==
    /\ At("leg2")
    /\ LET usd_to_from == call.usd_to_from
           usd_to_to == get_conversion_rate("USD", call.to,
                                            fs[RATES_FILE], 1)
           deepest == IF usd_to_from.depth > usd_to_to.depth
                      THEN usd_to_from.depth ELSE usd_to_to.depth
           legs == <<usd_to_from.step, usd_to_to.step>>
           rated ==
               IF usd_to_to.raised # "none" THEN usd_to_to
               ELSE IF LegsUsable(usd_to_from.rate, usd_to_to.rate)
               THEN Resolved(Bridged(usd_to_from.rate, usd_to_to.rate),
                             "bridge", deepest, legs)
               ELSE Resolved(None, "none", deepest, legs)
       IN  call' = [at |-> "rated", rated |-> rated,
                    loads |-> Append(call.loads, fs[RATES_FILE])] @@ call
    /\ UNCHANGED answer
    /\ UNCHANGED updvars
    /\ UNCHANGED schedvars

\* The lookup asked for directly returns.
ConvertReturn ==
    /\ call.op = "convert"
    /\ At("rated")
    /\ call' = [at |-> "done"] @@ call
    /\ answer' = call.rated
    /\ UNCHANGED updvars
    /\ UNCHANGED schedvars

\* Lookups, one after another, on a data directory nothing writes to.
NextResolve ==
    \/ \E from_currency, to_currency \in ResolverCodes :
          ConvertOuter(from_currency, to_currency)
    \/ ConvertLeg1
    \/ ConvertLeg2
    \/ ConvertReturn

SpecResolve == InitResolve /\ [][NextResolve]_vars

\* A lookup asked for directly has returned.
LookupDone == call.op = "convert" /\ call.at = "done"

\* The pairs of the snapshot the lookups read.
Pairs == DictGet(load_json(fs[RATES_FILE]), "pairs", EmptyDict)

\* A lookup of from -> to has returned.
Looked(from_currency, to_currency) ==
    /\ LookupDone
    /\ call.from = from_currency
    /\ call.to = to_currency

\* What a lookup of from -> to returns on the snapshot at hand.
RateOf(from_currency, to_currency) ==
    get_conversion_rate(from_currency, to_currency, fs[RATES_FILE], 0).rate

\* The snapshot has an entry under from_to whose rate is above zero.
PositiveEntry(from_currency, to_currency) ==
    /\ Has(Pairs, PairKey(from_currency, to_currency))
    /\ Pairs[PairKey(from_currency, to_currency)].rate[1] > 0

\* The rate of the entry under from_to.
StoredRate(from_currency, to_currency) ==
    Pairs[PairKey(from_currency, to_currency)].rate

\* ------------------------------------------------------------------------
\* C11.  Resolver precedence.
\* ------------------------------------------------------------------------

\* C11: for from # to the lookup returns the rate of the direct entry
\* whenever that entry is present with a rate above zero; otherwise 1/rate
\* of the reverse entry whenever that one is present with a rate above zero;
\* otherwise the bridged value (the product of the two USD legs when both
\* are available and neither code is USD, else unavailable).  A direct entry
\* that is absent or has a rate of zero or less never answers.
C11_ResolverPrecedence ==
    \A a, b \in ResolverCodes :
        (a # b /\ Looked(a, b)) =>
            IF PositiveEntry(a, b)
            THEN answer.rate = StoredRate(a, b) /\ answer.step = "direct"
            ELSE /\ answer.step # "direct"
                 /\ IF PositiveEntry(b, a)
                    THEN /\ answer.rate = Reciprocal(StoredRate(b, a))
                         /\ answer.step = "inverse"
                    ELSE /\ answer.step \in {"bridge", "none"}
                         /\ answer.step = "bridge" =>
                               /\ a # "USD" /\ b # "USD"
                               /\ answer.rate =
                                     Mul(RateOf(a, "USD"), RateOf("USD", b))
                         /\ answer.step = "none" => answer.rate = None

\* A lookup whose direct entry is there with rate 0 was answered from the
\* reverse entry.
C11_Witness ==
    \E a, b \in ResolverCodes :
        /\ a # b
        /\ Looked(a, b)
        /\ Has(Pairs, PairKey(a, b))
        /\ StoredRate(a, b) = Float(0)
        /\ PositiveEntry(b, a)
        /\ answer.rate = Reciprocal(StoredRate(b, a))
\* ------------------------------------------------------------------------
\* C12.  The bridging property.
\* ------------------------------------------------------------------------

\* The code is present against USD with a positive rate, in either
\* direction.
AgainstUsd(code) == PositiveEntry(code, "USD") \/ PositiveEntry("USD", code)

\* The lookup returned the product of its two USD legs.
ReturnedProduct(a, b) ==
    /\ answer.rate # None
    /\ SameNumber(answer.rate, Mul(RateOf(a, "USD"), RateOf("USD", b)))

\* C12 as claimed: for any snapshot and any two distinct non-USD codes A, B
\* each present against USD with a positive rate, rate(A, B) equals
\* rate(A, "USD") * rate("USD", B).
C12_BridgingAlways ==
    \A a, b \in ResolverCodes \ {"USD"} :
        (a # b /\ Looked(a, b) /\ AgainstUsd(a) /\ AgainstUsd(b)) =>
            ReturnedProduct(a, b)

\* C12 as amended: for any snapshot and any two distinct non-USD codes A, B
\* each present against USD with a positive rate, and with neither A_B nor
\* B_A present with a positive rate, rate(A, B) equals
\* rate(A, "USD") * rate("USD", B).
C12_BridgingWithoutEntry ==
    \A a, b \in ResolverCodes \ {"USD"} :
        (/\ a # b
         /\ Looked(a, b)
         /\ AgainstUsd(a) /\ AgainstUsd(b)
         /\ ~PositiveEntry(a, b) /\ ~PositiveEntry(b, a)) =>
            ReturnedProduct(a, b)

\* A lookup between two non-USD codes without an entry of their own was
\* answered by the bridge, one leg read from a direct entry and the other
\* from a reverse one.
C12_Witness ==
    \E a, b \in ResolverCodes \ {"USD"} :
        /\ a # b
        /\ Looked(a, b)
        /\ ~PositiveEntry(a, b) /\ ~PositiveEntry(b, a)
        /\ PositiveEntry(a, "USD")
        /\ ~PositiveEntry("USD", b) /\ PositiveEntry(b, "USD")
        /\ answer.step = "bridge"
        /\ answer.rate = Mul(StoredRate(a, "USD"),
                             Reciprocal(StoredRate(b, "USD")))
\* ------------------------------------------------------------------------
\* C13.  The inverse property.
\* ------------------------------------------------------------------------

\* C13: for every pair key A_B present in the snapshot with a rate r above
\* zero, and no usable direct entry B_A, rate(B, A) equals 1/r.
C13_InverseProperty ==
    \A a, b \in ResolverCodes :
        (/\ a # b
         /\ Looked(b, a)
         /\ PositiveEntry(a, b)
         /\ ~PositiveEntry(b, a)) =>
            /\ answer.rate = Reciprocal(StoredRate(a, b))
            /\ SameNumber(Mul(answer.rate, StoredRate(a, b)), Float(1))

\* A lookup of B -> A was answered with 4 from the entry A_B of rate 1/4,
\* the entry B_A being there with a rate that is not usable.
C13_Witness ==
    \E a, b \in ResolverCodes :
        /\ a # b
        /\ Looked(b, a)
        /\ PositiveEntry(a, b)
        /\ StoredRate(a, b) = <<1, 4>>
        /\ Has(Pairs, PairKey(b, a))
        /\ ~PositiveEntry(b, a)
        /\ answer.rate = <<4, 1>>
\* ------------------------------------------------------------------------
\* C14.  Bounded bridging.
\* ------------------------------------------------------------------------

\* Neither the two codes nor either of them against USD has an entry with
\* a positive rate.
NoEntriesFor(a, b) ==
    /\ ~PositiveEntry(a, b) /\ ~PositiveEntry(b, a)
    /\ ~AgainstUsd(a) \/ ~AgainstUsd(b)

\* C14: a lookup attempts the USD bridge only when neither code is USD;
\* its two sub-lookups are answered by the identity, direct or inverse step
\* (or not at all) and never bridge again; so the lookup returns, having
\* recursed at most one frame deep, and a lookup with no direct, inverse or
\* USD cross entries returns unavailable.
C14_BoundedBridging ==
    LookupDone =>
        /\ answer.raised = "none"
        /\ answer.depth <= 1
        /\ (answer.depth = 1 \/ answer.legs # <<>>) =>
              call.from # "USD" /\ call.to # "USD"
        /\ \A i \in 1..Len(answer.legs) :
              answer.legs[i] \in {"identity", "direct", "inverse", "none"}
        /\ (call.from # call.to /\ NoEntriesFor(call.from, call.to)) =>
              answer.rate = None

\* A lookup between two non-USD codes on a snapshot without any entry went
\* one frame deep for both legs and returned unavailable.
C14_Witness ==
    /\ LookupDone
    /\ call.from = "EUR" /\ call.to = "BTC"
    /\ Pairs = EmptyDict
    /\ answer.depth = 1
    /\ answer.legs = <<"none", "none">>
    /\ answer.rate = None
\* ------------------------------------------------------------------------
\* C15.  A positive rate or unavailable.
\* ------------------------------------------------------------------------

\* C15: for every snapshot (a missing or unreadable file, a document
\* without a pairs key, one without entries, one whose entries have rate 0
\* or less) and every two codes, the lookup raises nothing and returns
\* either a rate above zero or None.
C15_PositiveOrUnavailable ==
    LookupDone =>
        /\ answer.raised = "none"
        /\ \/ answer.rate = None
           \/ answer.rate[1] > 0 /\ answer.rate[2] > 0

\* A lookup whose direct entry has rate 0 and whose reverse entry has a
\* negative rate returned None.
C15_Witness ==
    /\ LookupDone
    /\ call.from # call.to
    /\ Has(Pairs, PairKey(call.from, call.to))
    /\ StoredRate(call.from, call.to) = Float(0)
    /\ Has(Pairs, PairKey(call.to, call.from))
    /\ StoredRate(call.to, call.from) = Float(-1)
    /\ answer.rate = None
\* ------------------------------------------------------------------------
\* The read side: freshness and the commands that show rates
\* (core/usecases.py).
\* ------------------------------------------------------------------------

\* Largest reading of the wall clock when a read-side command is called.
MaxReadClock == 3

\* A JSON number where a string is expected.
JsonNumber(n) == <<-2, n>>

IsString(v) == v = <<>> \/ v[1] >= 0

\* Python's truth value of a JSON scalar: None, "" and 0 are false.
Truthy(v) == v # None /\ v # <<>> /\ v # JsonNumber(0)

IsDigit(c) == c \in 0..9

\* datetime.fromisoformat(s.replace("Z", "+00:00")): an aware datetime for
\* a timestamp with the UTC designator, a naive one for a timestamp without,
\* ValueError for anything else.
fromisoformat(s) ==
    IF Len(s) = 3 /\ IsDigit(s[1]) /\ IsDigit(s[2]) /\ s[3] = Z
    THEN [tz |-> "utc", t |-> 10 * s[1] + s[2]]
    ELSE IF Len(s) = 2 /\ IsDigit(s[1]) /\ IsDigit(s[2])
    THEN [tz |-> "naive", t |-> 10 * s[1] + s[2]]
    ELSE [tz |-> "ValueError", t |-> 0]

\* The outcomes of _check_data_freshness: None, one of its three
\* descriptions, or an exception that leaves it.
FreshnessNone ==
    [text |-> "none", last_refresh |-> None, ttl |-> 0, error |-> "none"]

NoTimestampText ==
    [text |-> "no timestamp", last_refresh |-> None, ttl |-> 0,
     error |-> "none"]

StaleText(last_refresh, ttl) ==
    [text |-> "stale", last_refresh |-> last_refresh, ttl |-> ttl,
     error |-> "none"]

CheckErrorText(e) ==
    [text |-> "check error", last_refresh |-> None, ttl |-> 0, error |-> e]

FreshnessRaised(e) ==
    [text |-> "raised", last_refresh |-> None, ttl |-> 0, error |-> e]

\* Line 341 with >= for >.
OlderOrEqual(age, ttl) == age >= ttl

\* "now - last_update > ttl" (line 341)
Older(age, ttl) == age > ttl

\* "except (ValueError, TypeError)" (line 349)
FreshnessCatches(e) == e \in {"ValueError", "TypeError"}

\* What leaves the try block of lines 334-350 when e is raised inside it.
FreshnessFailure(e) ==
    IF FreshnessCatches(e) THEN CheckErrorText(e) ELSE FreshnessRaised(e)

\* _check_data_freshness(rates_data), called at clock reading clock with
\* rates_ttl configured as ttl.
check_data_freshness(rates_data, clock, ttl) ==
    LET last_refresh == DictGet(rates_data, "last_refresh", None)
    IN  IF ~Truthy(last_refresh) THEN NoTimestampText
        ELSE IF ~IsString(last_refresh)
        THEN FreshnessFailure("AttributeError")
        ELSE LET last_update == fromisoformat(last_refresh)
             IN  IF last_update.tz = "ValueError"
                 THEN FreshnessFailure("ValueError")
                 ELSE IF last_update.tz = "naive"
                 THEN FreshnessFailure("TypeError")
                 ELSE IF Older(clock - last_update.t, ttl)
                 THEN StaleText(last_refresh, ttl)
                 ELSE FreshnessNone

\* The values rates_ttl is configured with.
Ttls == {1, 2}

\* The codes of CURRENCY_REGISTRY (core/currencies.py).
CURRENCY_REGISTRY == {"USD", "EUR", "RUB", "BTC", "ETH", "SOL"}

\* The registered codes the commands are asked about and wallets are held
\* in, and a code that is not registered.
HeldCodes == {"USD", "EUR", "BTC"}

AskedCodes == HeldCodes \cup {"XXX"}

\* The exception e left the command.
Raises(e) == [kind |-> "raised", error |-> e]

\* "Локальный кеш курсов пуст. Выполните 'update-rates'."
CacheEmptyText == [kind |-> "cache empty", error |-> "none"]

\* get_rate returned the freshness description and nothing else (line 521).
OnlyFreshnessText(freshness_error) ==
    [kind |-> "freshness only", error |-> "none", note |-> freshness_error]

\* "Курс FROM→TO: ... (обновлено: ...) Обратный курс TO→FROM: ..."
RateText(rate, reverse_rate, updated) ==
    [kind |-> "rate", error |-> "none", rate |-> rate,
     reverse |-> reverse_rate, updated |-> updated, note |-> FreshnessNone]

\* "Курс FROM→TO недоступен. Повторите попытку позже."
UnavailableText == [kind |-> "unavailable", error |-> "none"]

\* "1 / rate if rate and rate != 0 else None" (lines 531, 539)
OneOver(rate) == IF rate[1] # 0 THEN Reciprocal(rate) ELSE None

\* The f-string of lines 532-535 and 540-544: "{x:.6f}" of None raises
\* TypeError.
FormatRates(rate, other, updated) ==
    IF rate = None \/ other = None THEN Raises("TypeError")
    ELSE RateText(rate, other, updated)

\* get_rate(from_code, to_code), called at clock reading clock with
\* rates_ttl configured as ttl.
get_rate(from_code, to_code, file, clock, ttl) ==
    IF from_code \notin CURRENCY_REGISTRY \/ to_code \notin CURRENCY_REGISTRY
    THEN Raises("CurrencyNotFoundError")
    ELSE
    LET rates == load_json(file)
    IN  IF rates = EmptyDict \/ ~Has(rates, "pairs")
        THEN CacheEmptyText
        ELSE IF rates.pairs = EmptyDict THEN CacheEmptyText
        ELSE
        LET freshness_error == check_data_freshness(rates, clock, ttl)
            key == PairKey(from_code, to_code)
            reverse_key == PairKey(to_code, from_code)
        IN  IF freshness_error.text = "raised"
            THEN Raises(freshness_error.error)
            ELSE IF freshness_error # FreshnessNone
            THEN OnlyFreshnessText(freshness_error)
            ELSE IF Has(rates.pairs, key)
            THEN LET pair == rates.pairs[key]
                     updated == DictGet(pair, "updated_at",
                                        DictGet(rates, "last_refresh", None))
                 IN  FormatRates(pair.rate, OneOver(pair.rate), updated)
            ELSE IF Has(rates.pairs, reverse_key)
            THEN LET reverse == rates.pairs[reverse_key]
                     updated == DictGet(reverse, "updated_at",
                                        DictGet(rates, "last_refresh", None))
                 IN  FormatRates(OneOver(reverse.rate), reverse.rate, updated)
            ELSE UnavailableText

\* float < float
Less(a, b) == a[1] * b[2] < b[1] * a[2]

\* No argument given (None).
NoArg == "none"

\* Lines 625-635: the entries that involve currency (when given) and base.
Filtered(pairs, currency, base) ==
    {k \in DOMAIN pairs :
        /\ currency # NoArg => (currency = k[1] \/ currency = k[2])
        /\ base = k[1] \/ base = k[2]}

\* Lines 647-650: the entries quoted in base with a rate above zero.
TopCandidates(pairs, filtered, base) ==
    {k \in filtered : k[2] = base /\ Less(Float(0), pairs[k].rate)}

\* Lines 651-652: sorted by descending rate and sliced, items[:top]: the
\* first top of them, or for a negative top all but the last -top; among
\* equal rates the order of the document decides, which is any order.
TopPicks(pairs, items, top) ==
    {rows \in SUBSET items :
        /\ Cardinality(rows) =
              (IF top < 0
               THEN (IF Cardinality(items) + top > 0
                     THEN Cardinality(items) + top ELSE 0)
               ELSE IF top < Cardinality(items) THEN top
               ELSE Cardinality(items))
        /\ \A k \in rows, o \in items \ rows :
              ~Less(pairs[k].rate, pairs[o].rate)}

\* Lines 637-644: the time shown in the heading.
FormattedTime(last_refresh) ==
    IF ~Truthy(last_refresh) THEN <<>>
    ELSE IF ~IsString(last_refresh) THEN last_refresh
    ELSE IF fromisoformat(last_refresh).tz = "ValueError" THEN last_refresh
    ELSE FormatTs(fromisoformat(last_refresh).t)

\* The table, with the freshness description under it when there is one.
TableText(rows, updated, freshness_error) ==
    IF freshness_error.text = "raised" THEN Raises(freshness_error.error)
    ELSE [kind |-> "table", error |-> "none", rows |-> rows,
          updated |-> updated, note |-> freshness_error]

\* The messages show_rates and show_portfolio return in place of a table.
MessageText(kind) == [kind |-> kind, error |-> "none"]

\* show_rates(currency, top, base), called at clock reading clock with
\* rates_ttl configured as ttl; top is 0 when not given ("if top:" takes
\* None and 0 alike); rows is the choice among equal rates.
show_rates(currency, top, base_arg, file, clock, ttl, rows) ==
    IF file.st # "full" THEN CacheEmptyText
    ELSE
    LET snap == file.data
        pairs == DictGet(snap, "pairs", EmptyDict)
        last_refresh == DictGet(snap, "last_refresh", None)
        base == IF base_arg # NoArg THEN base_arg ELSE "USD"
        filtered == Filtered(pairs, currency, base)
    IN  IF pairs = EmptyDict THEN CacheEmptyText
        ELSE IF currency # NoArg /\ currency \notin CURRENCY_REGISTRY
        THEN MessageText("unknown currency")
        ELSE IF base \notin CURRENCY_REGISTRY
        THEN MessageText("unknown base")
        ELSE IF top # 0
        THEN IF rows = {}
             THEN MessageText("nothing to show")
             ELSE TableText([k \in rows |-> pairs[k]], FormattedTime(last_refresh),
                            check_data_freshness(snap, clock, ttl))
        ELSE IF filtered = {}
        THEN MessageText("nothing found")
        ELSE TableText([k \in filtered |-> pairs[k]], FormattedTime(last_refresh),
                       check_data_freshness(snap, clock, ttl))

\* The choices of rows show_rates has.
RowChoices(currency, top, base_arg, file) ==
    LET pairs == DictGet(load_json(file), "pairs", EmptyDict)
        base == IF base_arg # NoArg THEN base_arg ELSE "USD"
        filtered == Filtered(pairs, currency, base)
    IN  IF top # 0
        THEN TopPicks(pairs, TopCandidates(pairs, filtered, base), top)
        ELSE {filtered}

\* float + float
Add(a, b) == <<a[1] * b[2] + b[1] * a[2], a[2] * b[2]>>

\* total_value: the sum of the values that are available.
RECURSIVE TotalValue(_, _)
TotalValue(codes, values) ==
    IF codes = {} THEN Float(0)
    ELSE LET c == CHOOSE x \in codes : TRUE
             rest == TotalValue(codes \ {c}, values)
         IN  IF values[c] = None THEN rest ELSE Add(values[c], rest)

\* The portfolio table, with the note on unavailable rates and the
\* freshness description under it when there is one.
PortfolioText(values, freshness_error) ==
    IF freshness_error.text = "raised" THEN Raises(freshness_error.error)
    ELSE [kind |-> "portfolio", error |-> "none", rows |-> values,
          total |-> TotalValue(DOMAIN values, values),
          has_unavailable_rates |-> (\E c \in DOMAIN values : values[c] = None),
          note |-> freshness_error]

\* ------------------------------------------------------------------------
\* Portfolios (core/models.py, core/usecases.py lines 31-57).
\*
\* portfolios.json holds a list of records, one for a user, and users.json
\* the list of the registered users.  The commands of the model are those
\* of one logged-in user, the first one registered.  The wallets of a
\* record, and of a Portfolio object, are a dict: wallets maps each
\* currency code to its balance and order lists the codes in the order of
\* the dict, which is the order of the members of the stored document.
\* ------------------------------------------------------------------------

\* float - float
Sub(a, b) == Add(a, <<-b[1], b[2]>>)

\* The session's logged-in user (get_logged_user()), as users.json
\* records them; the hash, the salt and the date of a record are left out.
CurrentUser == [user_id |-> 1, username |-> "alice"]

\* load_json(path) for the users file and the portfolios file: the list,
\* or [] when the file is missing or is not JSON.
load_portfolios(file) == IF file.st = "full" THEN file.data ELSE <<>>

\* ensure_data_dir (core/utils.py lines 9-30): each of the users, the
\* portfolios and the rates file that does not exist is written, the first
\* two as [] and the rates file as {}.
ensure_data_dir(files) ==
    [f \in Files |->
        IF files[f].st # "none" THEN files[f]
        ELSE IF f \in {USERS_FILE, PORTFOLIOS_FILE} THEN FullFile(<<>>)
        ELSE IF f = RATES_FILE THEN FullFile(EmptyDict)
        ELSE files[f]]

\* The logged-in user's Portfolio object without wallets.
NoPortfolio ==
    [user_id |-> CurrentUser.user_id, wallets |-> EmptyDict, order |-> <<>>]

\* Portfolio.add_currency: a wallet of balance 0 at the end of the dict,
\* unless the portfolio has a wallet of that currency.
add_currency(portfolio, code) ==
    IF Has(portfolio.wallets, code) THEN portfolio
    ELSE [portfolio EXCEPT !.wallets = DictSet(@, code, Float(0)),
                           !.order = Append(@, code)]

\* Portfolio(user_id, base_currency): __init__ adds the wallet of the base
\* currency, USD by the default of the settings.
NewPortfolio(user_id) ==
    add_currency([user_id |-> user_id, wallets |-> EmptyDict,
                  order |-> <<>>], "USD")

\* Portfolio.from_dict: the new portfolio of the record's user with the
\* stored wallets put over its own in the order of the document; a stored
\* wallet of the base currency takes the place of the one __init__ added.
from_dict(data) ==
    LET new == NewPortfolio(data.user_id)
    IN  [user_id |-> data.user_id,
         wallets |->
            [c \in (DOMAIN data.wallets) \cup (DOMAIN new.wallets) |->
                IF Has(data.wallets, c) THEN data.wallets[c]
                ELSE new.wallets[c]],
         order |->
            new.order
                \o SelectSeq(data.order, LAMBDA c : ~Has(new.wallets, c))]

\* Portfolio.to_dict: the record, with the wallets whose balance is not 0
\* in the order of the dict.
to_dict(portfolio) ==
    [user_id |-> portfolio.user_id, base_currency |-> "USD",
     wallets |-> [c \in {x \in DOMAIN portfolio.wallets :
                            portfolio.wallets[x][1] # 0} |->
                     portfolio.wallets[c]],
     order |-> SelectSeq(portfolio.order,
                         LAMBDA c : portfolio.wallets[c][1] # 0)]

\* The records of the list that are not those of user_id, in their order.
OtherRecords(portfolios_data, user_id) ==
    SelectSeq(portfolios_data, LAMBDA p : p.user_id # user_id)

\* The records of the list that are those of user_id, in their order.
RecordsOf(portfolios_data, user_id) ==
    SelectSeq(portfolios_data, LAMBDA p : p.user_id = user_id)

\* _save_user_portfolio writing into the rates file.
save_over_rates(files, portfolio) ==
    LET portfolios_data == load_portfolios(files[PORTFOLIOS_FILE])
    IN  [files EXCEPT ![RATES_FILE] =
            FullFile(Append(OtherRecords(portfolios_data, portfolio.user_id),
                            to_dict(portfolio)))]

\* _save_user_portfolio (lines 48-57): the list is loaded, the records of
\* the portfolio's user are dropped from it, the new record is appended
\* and the list is saved.
save_user_portfolio(files, portfolio) ==
    LET portfolios_data == load_portfolios(files[PORTFOLIOS_FILE])
    IN  [files EXCEPT ![PORTFOLIOS_FILE] =
            FullFile(Append(OtherRecords(portfolios_data, portfolio.user_id),
                            to_dict(portfolio)))]

\* _load_user_portfolio (lines 31-45): the first stored record of the
\* user; when the list has none, a new portfolio, which is saved at once.
\* The outcome is the data directory and the Portfolio object.
load_user_portfolio(files, user_id) ==
    LET portfolios_data == load_portfolios(files[PORTFOLIOS_FILE])
        found == RecordsOf(portfolios_data, user_id)
    IN  IF found = <<>>
        THEN [files |-> save_user_portfolio(files, NewPortfolio(user_id)),
              portfolio |-> NewPortfolio(user_id)]
        ELSE [files |-> files, portfolio |-> from_dict(found[1])]

\* What the rates file can hold when a read-side command is called: entries
\* of rate 0 or 2 under some of three keys, with or without an entry of
\* rate 1 under EUR_USD, and as last_refresh nothing, null, "", a number, a
\* timestamp with or without the UTC designator, or text that is no
\* timestamp.
ReadKeys == {PairKey("BTC", "USD"), PairKey("USD", "BTC"), PairKey("USD", "EUR")}

ReadRates == {Float(0), Float(2)}

ReadPairs ==
    LET some == {[k \in DOMAIN f |-> SeedEntry(f[k], FormatTs(0))] :
                    f \in UNION {[K -> ReadRates] : K \in SUBSET ReadKeys}}
    IN  some \cup {DictSet(pairs, PairKey("EUR", "USD"),
                           SeedEntry(Float(1), FormatTs(0))) : pairs \in some}

NaiveTimestamp == <<0, 1>>

NoTimestampAtAll == <<Z>>

LastRefreshValues ==
    {None, <<>>, JsonNumber(5), NaiveTimestamp, NoTimestampAtAll}
        \cup {FormatTs(t) : t \in 0..MaxReadClock}

ReadSnapshots ==
    {[pairs |-> p, last_refresh |-> v] :
        p \in ReadPairs, v \in LastRefreshValues}
        \cup {[pairs |-> p] : p \in ReadPairs}

ReadFiles ==
    {NoFile, PartialFile, FullFile(EmptyDict)}
        \cup {FullFile(snap) : snap \in ReadSnapshots}

\* The portfolios a stored record can come from: the wallets in their
\* order, the base wallet first, those of funded with a balance of 2 and
\* the others with 0, which the record leaves out.
Funded(order, funded) ==
    [user_id |-> CurrentUser.user_id,
     wallets |-> [c \in {order[i] : i \in DOMAIN order} |->
                     IF c \in funded THEN Float(2) ELSE Float(0)],
     order |-> order]

\* A portfolio of zero balances only, one of USD, one of USD and BTC, and
\* one of BTC and EUR bought in the one order or the other.
StoredPortfolios ==
    {Funded(<<"USD">>, {}),
     Funded(<<"USD">>, {"USD"}),
     Funded(<<"USD", "BTC">>, {"USD", "BTC"}),
     Funded(<<"USD", "BTC", "EUR">>, {"BTC", "EUR"}),
     Funded(<<"USD", "EUR", "BTC">>, {"BTC", "EUR"})}

\* The record register stored for a second user.
SecondRecord == to_dict(NewPortfolio(CurrentUser.user_id + 1))

\* What can be at the path of the portfolios file: nothing, the empty
\* list, the list with the user's record, or a list where that record
\* comes after a second user's.
PortfolioFiles ==
    {NoFile, FullFile(<<>>)}
        \cup {FullFile(<<to_dict(portfolio)>>) :
                 portfolio \in StoredPortfolios}
        \cup {FullFile(<<SecondRecord,
                         to_dict(Funded(<<"USD", "BTC">>, {"USD", "BTC"}))>>)}

\* What can be at the path of the users file: nothing, the empty list, or
\* the list with the logged-in user.
UsersFiles == {NoFile, FullFile(<<>>), FullFile(<<CurrentUser>>)}

\* The state before a read-side command: one of the rates files, one of
\* the portfolios files and one of the users files, at one of the clock
\* readings.
InitReadOver(rates_files, users_files, clocks) ==
    /\ \E file \in rates_files, held \in PortfolioFiles,
          users \in users_files :
          fs = [f \in Files |->
                  CASE f = RATES_FILE -> file
                    [] f = EXCHANGE_HISTORY_FILE -> FullFile(<<>>)
                    [] f = PORTFOLIOS_FILE -> held
                    [] f = USERS_FILE -> users
                    [] OTHER -> NoFile]
    /\ Idle(clocks)

\* Any rates file, any portfolios file, at any clock reading; none of the
\* commands that follow reads the users file.
InitRead ==
    InitReadOver(ReadFiles, {FullFile(<<CurrentUser>>)}, 0..MaxReadClock)

\* A call of _check_data_freshness on the loaded rates file.
CheckDataFreshness(ttl) ==
    /\ call = NoCall
    /\ call' = [op |-> "check_data_freshness", ttl |-> ttl]
    /\ answer' = check_data_freshness(load_json(fs[RATES_FILE]), now, ttl)
    /\ UNCHANGED updvars
    /\ UNCHANGED schedvars

\* The get-rate command.
GetRate(from_code, to_code, ttl) ==
    /\ call = NoCall
    /\ call' = [op |-> "get_rate", from |-> from_code, to |-> to_code,
                ttl |-> ttl]
    /\ answer' = get_rate(from_code, to_code, fs[RATES_FILE], now, ttl)
    /\ UNCHANGED updvars
    /\ UNCHANGED schedvars

\* The show-rates command.
ShowRates(currency, top, base, ttl) ==
    /\ call = NoCall
    /\ call' = [op |-> "show_rates", currency |-> currency, top |-> top,
                base |-> base, ttl |-> ttl]
    /\ \E rows \in RowChoices(currency, top, base, fs[RATES_FILE]) :
          answer' = show_rates(currency, top, base, fs[RATES_FILE], now, ttl,
                               rows)
    /\ UNCHANGED updvars
    /\ UNCHANGED schedvars

\* The show-portfolio command up to the loop over the wallets (lines
\* 431-459): the user's portfolio is loaded, and saved when it is new, and
\* the rates file is loaded for the freshness check at the end.  The loop
\* takes portfolio.wallets.items() in the order of the dict.
ShowPortfolio(logged, base_arg, ttl) ==
    /\ call = NoCall
    /\ LET loaded == load_user_portfolio(fs, CurrentUser.user_id)
           base == IF base_arg # NoArg THEN base_arg ELSE "USD"
           c == [op |-> "show_portfolio", logged |-> logged,
                 base |-> base_arg, ttl |-> ttl,
                 wallets |-> IF logged THEN loaded.portfolio.wallets
                             ELSE EmptyDict,
                 rates |-> EmptyDict, todo |-> <<>>, values |-> EmptyDict]
                @@ NoLookup
       IN  IF ~logged
           THEN /\ call' = [at |-> "done"] @@ c
                /\ answer' = Raises("ValueError")
                /\ fs' = fs
           ELSE /\ fs' = loaded.files
                /\ IF base \notin CURRENCY_REGISTRY
                   THEN /\ call' = [at |-> "done"] @@ c
                        /\ answer' = MessageText("unknown base")
                   ELSE IF DOMAIN loaded.portfolio.wallets = {}
                   THEN /\ call' = [at |-> "done"] @@ c
                        /\ answer' = MessageText("empty portfolio")
                   ELSE /\ call' = [at |-> "loop",
                                    rates |-> load_json(fs[RATES_FILE]),
                                    todo |-> loaded.portfolio.order,
                                    loads |-> <<fs[RATES_FILE]>>] @@ c
                        /\ answer' = NoAnswer
    /\ UNCHANGED runvars
    /\ UNCHANGED schedvars

\* The base of the show-portfolio command in progress.
ShownBase == IF call.base # NoArg THEN call.base ELSE "USD"

\* show_portfolio, the loop at the next wallet (lines 461-469): a wallet
\* of the base currency is valued as it is, for another one the rate is
\* looked up.
PortfolioWallet ==
    /\ call.op = "show_portfolio"
    /\ At("loop")
    /\ call.todo # <<>>
    /\ LET currency_code == Head(call.todo)
       IN  call' =
              IF currency_code = ShownBase
              THEN [todo |-> Tail(call.todo),
                    values |-> DictSet(call.values, currency_code,
                                       call.wallets[currency_code])] @@ call
              ELSE Asked(call, currency_code, ShownBase, fs[RATES_FILE])
    /\ UNCHANGED answer
    /\ UNCHANGED updvars
    /\ UNCHANGED schedvars

\* show_portfolio, the wallet whose rate was looked up (lines 470-478).
PortfolioRated ==
    /\ call.op = "show_portfolio"
    /\ At("rated")
    /\ LET currency_code == Head(call.todo)
           rate == call.rated.rate
           value == IF RateUsable(rate)
                    THEN Mul(call.wallets[currency_code], rate)
                    ELSE None
       IN  IF call.rated.raised # "none"
           THEN /\ call' = [at |-> "done"] @@ call
                /\ answer' = Raises(call.rated.raised)
           ELSE /\ call' = [at |-> "loop", todo |-> Tail(call.todo),
                            values |-> DictSet(call.values, currency_code,
                                               value)] @@ call
                /\ UNCHANGED answer
    /\ UNCHANGED updvars
    /\ UNCHANGED schedvars

\* show_portfolio after the loop (lines 480-500): the table, and the
\* freshness of the rates document loaded before the loop.
PortfolioEnd ==
    /\ call.op = "show_portfolio"
    /\ At("loop")
    /\ call.todo = <<>>
    /\ call' = [at |-> "done"] @@ call
    /\ answer' = PortfolioText(call.values,
                               check_data_freshness(call.rates, now,
                                                    call.ttl))
    /\ UNCHANGED updvars
    /\ UNCHANGED schedvars

\* One read-side command on a data directory no refresh is writing to.
NextRead ==
    \/ \E ttl \in Ttls : CheckDataFreshness(ttl)
    \/ \E from_code, to_code \in AskedCodes, ttl \in Ttls :
          GetRate(from_code, to_code, ttl)
    \/ \E currency \in {NoArg, "BTC", "XXX"}, top \in {-1, 0, 1},
          base \in {NoArg, "EUR", "XXX"}, ttl \in Ttls :
          ShowRates(currency, top, base, ttl)
    \/ \E logged \in BOOLEAN, base \in {NoArg, "EUR", "XXX"}, ttl \in Ttls :
          ShowPortfolio(logged, base, ttl)
    \/ PortfolioWallet
    \/ ConvertLeg1
    \/ ConvertLeg2
    \/ PortfolioRated
    \/ PortfolioEnd

SpecRead == InitRead /\ [][NextRead]_vars

\* The document the read-side commands load.
Loaded == load_json(fs[RATES_FILE])

LoadedLastRefresh == DictGet(Loaded, "last_refresh", None)

\* The snapshot is stale by TTL for the call at hand, or has no
\* last_refresh.
StaleOrUnstamped ==
    \/ ~Truthy(LoadedLastRefresh)
    \/ /\ IsString(LoadedLastRefresh)
       /\ fromisoformat(LoadedLastRefresh).tz = "utc"
       /\ now - fromisoformat(LoadedLastRefresh).t > call.ttl

\* The loaded document's entries.
LoadedPairs == DictGet(Loaded, "pairs", EmptyDict)

\* _check_data_freshness can be called on the loaded document without an
\* exception leaving it.
FreshnessReturns ==
    ~Truthy(LoadedLastRefresh) \/ IsString(LoadedLastRefresh)

\* The loaded document has an entry under from_to with rate 0.
ZeroEntry(from_code, to_code) ==
    /\ Has(LoadedPairs, PairKey(from_code, to_code))
    /\ LoadedPairs[PairKey(from_code, to_code)].rate = Float(0)

\* The loaded document has an entry under from_to with a rate above zero.
GoodEntry(from_code, to_code) ==
    /\ Has(LoadedPairs, PairKey(from_code, to_code))
    /\ LoadedPairs[PairKey(from_code, to_code)].rate[1] > 0

\* ------------------------------------------------------------------------
\* C16.  get_rate and an entry of rate 0.
\* ------------------------------------------------------------------------

\* C16: for any two supported codes whose direct or reverse entry is
\* present with rate 0, get_rate returns a result (a rate, the unavailable
\* message or another message) and does not raise.
C16_ZeroRateNoRaise ==
    (/\ call.op = "get_rate"
     /\ call.from \in CURRENCY_REGISTRY /\ call.to \in CURRENCY_REGISTRY
     /\ FreshnessReturns
     /\ ZeroEntry(call.from, call.to) \/ ZeroEntry(call.to, call.from)) =>
        answer.kind # "raised"

\* ------------------------------------------------------------------------
\* C17.  Staleness is advisory.
\* ------------------------------------------------------------------------

\* get_rate on a stale or unstamped snapshot that has a usable entry for
\* the pair returns the rate, the description beside it.
BesideRate ==
    (/\ call.op = "get_rate"
     /\ StaleOrUnstamped
     /\ GoodEntry(call.from, call.to) \/ GoodEntry(call.to, call.from)) =>
        /\ answer.kind = "rate"
        /\ answer.note.text \in {"stale", "no timestamp"}

\* show_rates on a stale or unstamped snapshot that has rows to show
\* returns the table, the description beside it.
BesideTable ==
    (/\ call.op = "show_rates"
     /\ StaleOrUnstamped
     /\ call.currency \in CURRENCY_REGISTRY \cup {NoArg}
     /\ call.base \in CURRENCY_REGISTRY \cup {NoArg}
     /\ LET base == IF call.base # NoArg THEN call.base ELSE "USD"
            filtered == Filtered(LoadedPairs, call.currency, base)
        IN  IF call.top # 0
            THEN {} \notin TopPicks(LoadedPairs,
                                    TopCandidates(LoadedPairs, filtered, base),
                                    call.top)
            ELSE filtered # {}) =>
        /\ answer.kind = "table"
        /\ answer.rows # <<>>
        /\ answer.note.text \in {"stale", "no timestamp"}

\* show_portfolio on a stale or unstamped snapshot returns the portfolio,
\* valued at the rates the snapshot has, the description beside it.
BesidePortfolio ==
    (/\ call.op = "show_portfolio"
     /\ At("done")
     /\ StaleOrUnstamped
     /\ call.logged
     /\ call.base \in CURRENCY_REGISTRY \cup {NoArg}
     /\ DOMAIN call.wallets # {}) =>
        /\ answer.kind = "portfolio"
        /\ answer.note.text \in {"stale", "no timestamp"}
        /\ \A c \in DOMAIN call.wallets :
              LET base == IF call.base # NoArg THEN call.base ELSE "USD"
              IN  (c # base /\ GoodEntry(c, base)) =>
                     answer.rows[c] = Mul(call.wallets[c],
                                          LoadedPairs[PairKey(c, base)].rate)

\* C17: whenever the snapshot is stale by TTL (or has no last_refresh) and
\* contains the requested data, get_rate, show_rates and show_portfolio
\* still return the rate data, the staleness description beside it.
C17_StalenessAdvisory ==
    BesideRate /\ BesideTable /\ BesidePortfolio

\* ------------------------------------------------------------------------
\* C18.  The freshness boundary.
\* ------------------------------------------------------------------------

\* The loaded last_refresh is a well-formed UTC timestamp.
WellFormedLastRefresh ==
    /\ Truthy(LoadedLastRefresh)
    /\ IsString(LoadedLastRefresh)
    /\ fromisoformat(LoadedLastRefresh).tz = "utc"

\* now - last_refresh, in seconds.
Age == now - fromisoformat(LoadedLastRefresh).t

\* C18: for a snapshot with a well-formed UTC last_refresh the checker
\* reports stale (naming the last refresh and the TTL) if and only if
\* now - last_refresh is strictly greater than the TTL, and reports nothing
\* otherwise: at now - TTL - 1s stale, at now - TTL and now - TTL + 1s not.
C18_FreshnessBoundary ==
    (call.op = "check_data_freshness" /\ WellFormedLastRefresh) =>
        IF Age > call.ttl
        THEN answer = StaleText(LoadedLastRefresh, call.ttl)
        ELSE answer = FreshnessNone

\* The checker was called on a snapshot refreshed exactly TTL ago and
\* reported nothing.
C18_Witness ==
    /\ call.op = "check_data_freshness"
    /\ WellFormedLastRefresh
    /\ Age = call.ttl
    /\ answer = FreshnessNone

\* ------------------------------------------------------------------------
\* C19.  The error cases of the freshness check.
\* ------------------------------------------------------------------------

\* C19: the checker never raises to its caller; an absent or null
\* last_refresh yields the "no timestamp" description, which differs from
\* the stale one; a last_refresh that cannot be parsed or compared (text
\* that is no timestamp, a timestamp without timezone, a value that is not
\* a string) yields the parse-error description.
C19_FreshnessErrors ==
    call.op = "check_data_freshness" =>
        /\ answer.text # "raised"
        /\ LoadedLastRefresh = None =>
              answer = NoTimestampText /\ answer.text # "stale"
        /\ (Truthy(LoadedLastRefresh) /\ ~WellFormedLastRefresh) =>
              answer.text = "check error"

\* ------------------------------------------------------------------------
\* C20.  last_refresh is the time the merge completed.
\* ------------------------------------------------------------------------

\* No entry of the persisted snapshot is stamped later than the snapshot.
StampedAfterEntries ==
    \A k \in DOMAIN PairsOf(Persisted) :
        ~StrLess(LastRefreshOf(Persisted), PairsOf(Persisted)[k].updated_at)

\* The persisted last_refresh does not decrease in this step.
RefreshAdvancesStep ==
    ~StrLess(LastRefreshOf(Persisted'), LastRefreshOf(Persisted))

\* C20: in every reachable persisted snapshot last_refresh is greater than
\* or equal to the updated_at of every pair entry in it, and last_refresh
\* never decreases from one persisted snapshot to the next.
C20_MergeCompletionTime ==
    []StampedAfterEntries /\ [][RefreshAdvancesStep]_vars

\* Only the second half of C20.
RefreshAdvances == [][RefreshAdvancesStep]_vars

\* ------------------------------------------------------------------------
\* The providers' clients on their own.
\* ------------------------------------------------------------------------

\* The numbers a provider may quote: negative, zero, positive.
QuotedRates == {-2, -1, 0, 1, 2, 4}

InitFetch == InitWith({FullFile(EmptySnapshot)}, 0..MaxReadClock)

\* A call of client.fetch_rates() answered by the exchange resp.
FetchRates(client, resp) ==
    /\ call = NoCall
    /\ call' = [op |-> "fetch_rates", client |-> client, resp |-> resp]
    /\ answer' = fetch_rates(client, resp, FormatTs(now))
    /\ UNCHANGED updvars
    /\ UNCHANGED schedvars

NextFetch ==
    \E client \in {"CoinGeckoClient", "ExchangeRateApiClient"} :
        \E resp \in WideResponsesOver(client, QuotedRates) :
            FetchRates(client, resp)

SpecFetch == InitFetch /\ [][NextFetch]_vars

\* A fetch has returned a batch.
Fetched == call.op = "fetch_rates" /\ answer.status = "ok"

\* The batch is a sequence of couples: the quote of a currency as the
\* provider reported it, then the quote of the reverse key.
Direct(i) == answer.pairs[2 * i - 1]

Reverse(i) == answer.pairs[2 * i]

\* ------------------------------------------------------------------------
\* C21.  Both directions, with a safe inverse.
\* ------------------------------------------------------------------------

\* C21: for every currency a provider reports with raw rate r the batch
\* has the direct key and the reverse key, with the same provider and the
\* same updated_at; the reverse rate is 1/r when r > 0 and 0.0 when r is
\* zero or negative; no division fault is raised and no entry has a
\* negative rate.
C21_BothDirections ==
    /\ call.op = "fetch_rates" => answer.status # "ZeroDivisionError"
    /\ Fetched =>
          /\ Len(answer.pairs) % 2 = 0
          /\ \A i \in 1..(Len(answer.pairs) \div 2) :
                /\ Reverse(i).key = PairKey(Direct(i).key[2], Direct(i).key[1])
                /\ Reverse(i).meta.source = Direct(i).meta.source
                /\ Reverse(i).meta.updated_at = Direct(i).meta.updated_at
                /\ Reverse(i).meta.rate =
                      IF Direct(i).meta.rate[1] > 0
                      THEN Reciprocal(Direct(i).meta.rate)
                      ELSE Float(0)
                /\ Direct(i).meta.rate[1] >= 0
                /\ Reverse(i).meta.rate[1] >= 0

\* ------------------------------------------------------------------------
\* The result of a run and the providers it invoked.
\* ------------------------------------------------------------------------

\* The name a provider's error message carries.
ProviderName(c) ==
    IF c = "CoinGeckoClient" THEN "CoinGecko" ELSE "ExchangeRate"

\* The providers whose request failed in the run, in the order of the
\* client list.
FailedInOrder(p) ==
    SelectSeq(Clients, LAMBDA c : tried[p][c] = "ApiRequestError")

\* The providers the run invoked.
Invoked(p) ==
    {c \in {"CoinGeckoClient", "ExchangeRateApiClient"} : tried[p][c] # "no"}

\* A quote of the run that lost the recency comparison against the entry
\* the run had read.
LostRecency(p, i) ==
    /\ Has(PairsOf(existing[p]), got[p][i].key)
    /\ ~StrLess(PairsOf(existing[p])[got[p][i].key].updated_at,
                got[p][i].meta.updated_at)

\* C22: the result a run returns has total = the number of keys of the
\* prior mapping united with every fetched key, fetched = the sum of the
\* sizes of the batches the succeeding providers returned (duplicates and
\* quotes that lost the recency comparison included), and errors = one
\* message per failed provider, in the order the providers were tried.
C22_ResultCounts ==
    \A p \in Procs :
        Returned(p) =>
            /\ result[p].total =
                  Cardinality(DOMAIN PairsOf(existing[p]) \cup GotKeys(p))
            /\ result[p].fetched = Len(got[p])
            /\ Len(result[p].errors) = Len(FailedInOrder(p))
            /\ \A i \in 1..Len(result[p].errors) :
                  result[p].errors[i][2] = ProviderName(FailedInOrder(p)[i])

\* A run over a seeded snapshot returned after one provider failed and the
\* other returned a batch with a quote that lost the recency comparison.
C22_Witness ==
    \E p \in Procs :
        /\ Returned(p)
        /\ Len(result[p].errors) = 1
        /\ result[p].fetched > 0
        /\ result[p].total > result[p].fetched
        /\ \E i \in 1..Len(got[p]) : LostRecency(p, i)

\* The source name a provider's quotes carry.
SourceName(c) ==
    IF c = "CoinGeckoClient" THEN "CoinGecko" ELSE "ExchangeRate-API"

\* The provider a known alias names, "all" for no source, "none" for an
\* unknown alias.
Named(src) ==
    CASE src = NoSource -> "all"
      [] src = " CoinGecko " -> "CoinGeckoClient"
      [] src = "exchangerate" -> "ExchangeRateApiClient"
      [] OTHER -> "none"

\* The records the run has appended to the log it found.
Appended(p) == SubSeq(HistoryLog, Len(hist0[p]) + 1, Len(HistoryLog))

\* C23: a run that returns without a source has invoked every configured
\* provider; with a known alias (trimmed, case-insensitive) it has invoked
\* only the matching provider, has appended no history record of the
\* other provider and has left the other provider's snapshot entries as
\* it read them; with an unknown alias it has invoked no provider, has
\* appended no record and returns fetched = 0 with no error.
C23_ProviderSelection ==
    \A p \in Procs :
        Returned(p) =>
            /\ Named(source[p]) = "all" =>
                  Invoked(p) = {"CoinGeckoClient", "ExchangeRateApiClient"}
            /\ Named(source[p]) \in
                     {"CoinGeckoClient", "ExchangeRateApiClient"} =>
                  /\ Invoked(p) = {Named(source[p])}
                  /\ \A i \in 1..Len(Appended(p)) :
                        Appended(p)[i].source = SourceName(Named(source[p]))
                  /\ \A k \in DOMAIN PairsOf(existing[p]) :
                        PairsOf(existing[p])[k].source # SourceName(Named(source[p])) =>
                            /\ Has(PairsOf(Persisted), k)
                            /\ PairsOf(Persisted)[k] = PairsOf(existing[p])[k]
            /\ Named(source[p]) = "none" =>
                  /\ Invoked(p) = {}
                  /\ Appended(p) = <<>>
                  /\ result[p].fetched = 0
                  /\ result[p].errors = <<>>

\* A run named one provider by a padded, capitalised alias over a snapshot
\* holding the other provider's entries, appended records and returned.
C23_Witness ==
    \E p \in Procs :
        /\ Returned(p)
        /\ source[p] = " CoinGecko "
        /\ Appended(p) # <<>>
        /\ \E k \in DOMAIN PairsOf(existing[p]) :
              PairsOf(existing[p])[k].source = "ExchangeRate-API"

\* ------------------------------------------------------------------------
\* The scheduler (parser_service/scheduler.py, cli/interface.py).
\*
\* thread[s] is "absent" before the object is constructed, "none" while
\* _thread is None, "while" when the loop is about to test the flag, "try"
\* when the test has found the flag clear and run_update() is not entered
\* yet, "run" inside run_update() and up to the end of the try statement,
\* "wait" inside _stop_event.wait, "dead" once _loop has returned.
\* ------------------------------------------------------------------------

\* threading.Thread.is_alive() of a scheduler's _thread.
is_alive(t) == t \in {"while", "try", "run", "wait"}

\* The exceptions of the model that derive from Exception.
Exceptions ==
    {"ApiRequestError", "AttributeError", "ValueError", "TypeError",
     "OSError"}

\* _loop catching the providers' errors only.
LoopCatchesApiErrors(e) == e = "ApiRequestError"

\* "except Exception" in _loop (line 28).
LoopCatches(e) == e \in Exceptions

\* A wait that sleeps the interval whatever the flag is.
BlocksRegardless(flag) == TRUE

\* threading.Event.wait(timeout) blocks only while the flag is clear.
Blocks(flag) == ~flag

\* A stop() that leaves the flag as it is.
set_nothing(flag) == flag

\* threading.Event.set().
set(flag) == TRUE

\* The exchanges of a scheduler's iterations: a transport failure, a
\* body of the wrong shape, or a well-formed answer.
SchedResponses(client) ==
    {r \in Responses(client) :
        \/ r.kind \in {"network", "shape"}
        \/ r.kind = "ok" /\ r.rates = "object" /\ r.body = Body(JNum(2), JMissing)}

\* SimpleScheduler.__init__ (lines 14-19): the last statement constructs
\* a RatesUpdater and with it the two stores.
Construct(s) ==
    /\ caller = NoMethod
    /\ thread[s] = "absent"
    /\ thread' = [thread EXCEPT ![s] = "none"]
    /\ stop_event' = [stop_event EXCEPT ![s] = FALSE]
    /\ fs' = construct_stores(fs)
    /\ UNCHANGED <<caller, joined, elapsed, method>>
    /\ UNCHANGED <<runvars, readvars>>

\* SimpleScheduler.start (lines 33-39).
Start(s) ==
    /\ caller = NoMethod
    /\ thread[s] # "absent"
    /\ IF is_alive(thread[s])
       THEN UNCHANGED <<stop_event, thread>>
       ELSE /\ stop_event' = [stop_event EXCEPT ![s] = FALSE]
            /\ thread' = [thread EXCEPT ![s] = "while"]
    /\ UNCHANGED <<caller, joined, elapsed>>
    /\ method' = [method EXCEPT ![s] = "start"]
    /\ UNCHANGED <<updvars, readvars>>

\* The start-scheduler command (interface.py lines 212-217): a new
\* SimpleScheduler is constructed and started; the one an earlier command
\* made is not looked at.
StartSchedulerCommand(s) ==
    /\ caller = NoMethod
    /\ thread[s] = "absent"
    /\ \A t \in Scheds : t < s => thread[t] # "absent"
    /\ stop_event' = [stop_event EXCEPT ![s] = FALSE]
    /\ thread' = [thread EXCEPT ![s] = "while"]
    /\ fs' = construct_stores(fs)
    /\ UNCHANGED <<caller, joined, elapsed>>
    /\ method' = [method EXCEPT ![s] = "start"]
    /\ UNCHANGED <<runvars, readvars>>

\* _loop, the while test finding the flag set (lines 24, 31).
LoopExit(s) ==
    /\ thread[s] = "while"
    /\ stop_event[s]
    /\ thread' = [thread EXCEPT ![s] = "dead"]
    /\ UNCHANGED <<stop_event, caller, joined, elapsed, method>>
    /\ UNCHANGED <<updvars, readvars>>

\* _loop, the while test finding the flag clear (line 24); limit bounds
\* the iterations of the thread.
LoopTest(s, limit) ==
    /\ thread[s] = "while"
    /\ ~stop_event[s]
    /\ started[Thread(s)] < limit
    /\ thread' = [thread EXCEPT ![s] = "try"]
    /\ UNCHANGED <<stop_event, caller, joined, elapsed, method>>
    /\ UNCHANGED <<updvars, readvars>>

\* _loop, the call of run_update() (lines 25-26) after the test, which is
\* not made again: the flag may have been set since.
LoopBegin(s) ==
    /\ thread[s] = "try"
    /\ thread' = [thread EXCEPT ![s] = "run"]
    /\ BeginRun(Thread(s), NoSource, fs)
    /\ UNCHANGED <<stop_event, caller, joined, elapsed, method>>

\* _loop, the end of the try statement (lines 27-30): run_update returned
\* or raised, the outcome is logged and the wait begins.
LoopAfter(s) ==
    /\ thread[s] = "run"
    /\ pc[Thread(s)] \in {"done", "raised"}
    /\ thread' = [thread EXCEPT ![s] =
                     IF pc[Thread(s)] = "raised"
                        /\ ~LoopCatches(exc[Thread(s)])
                     THEN "dead" ELSE "wait"]
    /\ UNCHANGED <<stop_event, caller, joined, elapsed, method>>
    /\ UNCHANGED <<updvars, readvars>>

\* _stop_event.wait(self.interval) returning after the interval (line 30).
IntervalElapses(s) ==
    /\ thread[s] = "wait"
    /\ Blocks(stop_event[s])
    /\ thread' = [thread EXCEPT ![s] = "while"]
    /\ elapsed' = [elapsed EXCEPT ![s] = @ + 1]
    /\ UNCHANGED <<stop_event, caller, joined, method>>
    /\ UNCHANGED <<updvars, readvars>>

\* _stop_event.wait(self.interval) returning because the flag is set.
WaitWoken(s) ==
    /\ thread[s] = "wait"
    /\ stop_event[s]
    /\ thread' = [thread EXCEPT ![s] = "while"]
    /\ UNCHANGED <<stop_event, caller, joined, elapsed, method>>
    /\ UNCHANGED <<updvars, readvars>>

\* SimpleScheduler.stop, the signal (lines 43-44); without a thread it
\* returns at once.
StopSignal(s) ==
    /\ caller = NoMethod
    /\ thread[s] # "absent"
    /\ stop_event' = [stop_event EXCEPT ![s] = set(@)]
    /\ IF thread[s] = "none"
       THEN /\ joined' = [joined EXCEPT ![s] = "nothread"]
            /\ UNCHANGED caller
       ELSE /\ caller' = [op |-> "stop", s |-> s]
            /\ UNCHANGED joined
    /\ UNCHANGED <<thread, elapsed>>
    /\ method' = [method EXCEPT ![s] = "stop"]
    /\ UNCHANGED <<updvars, readvars>>

\* stop(), join(timeout=2) returning because the thread has finished
\* (line 45).
JoinExited(s) ==
    /\ caller = [op |-> "stop", s |-> s]
    /\ ~is_alive(thread[s])
    /\ caller' = NoMethod
    /\ joined' = [joined EXCEPT ![s] = "exited"]
    /\ UNCHANGED <<stop_event, thread, elapsed, method>>
    /\ UNCHANGED <<updvars, readvars>>

\* stop(), join(timeout=2) returning after two seconds with the thread
\* still alive (line 45).
JoinTimesOut(s) ==
    /\ caller = [op |-> "stop", s |-> s]
    /\ is_alive(thread[s])
    /\ caller' = NoMethod
    /\ joined' = [joined EXCEPT ![s] = "timeout"]
    /\ UNCHANGED <<stop_event, thread, elapsed, method>>
    /\ UNCHANGED <<updvars, readvars>>

\* The steps of the run_update a scheduler thread is inside, the network
\* answering with one of SchedResponses.
RunStep(p) ==
    \/ /\ targets[p] # <<>>
       /\ \E resp \in SchedResponses(Head(targets[p])) : Fetch(p, resp)
    \/ AppendRead(p)
    \/ AfterClients(p)
    \/ WriteOpen(p)
    \/ WriteDump(p)
    \/ WriteReplace(p)

\* What the thread of scheduler s does.
LoopStep(s) ==
    \/ LoopTest(s, MaxIterations)
    \/ LoopBegin(s)
    \/ LoopExit(s)
    \/ LoopAfter(s)
    \/ IntervalElapses(s)
    \/ WaitWoken(s)
    \/ RunStep(Thread(s))

\* One SimpleScheduler, constructed, started and stopped by the
\* foreground, on a disk that may fail.
NextSched ==
    \/ Tick
    \/ Construct(1)
    \/ Start(1)
    \/ StopSignal(1)
    \/ JoinExited(1)
    \/ JoinTimesOut(1)
    \/ LoopStep(1)
    \/ WriteFail(Thread(1))

\* The session begins over a directory the stores were constructed in
\* before, or over a bare one.
InitSched == Init \/ InitBare

SpecSched == InitSched /\ [][NextSched]_vars

\* The thread of the scheduler is scheduled, the network answers and time
\* passes.
FairSched == SpecSched /\ WF_vars(LoopStep(1))

\* The iteration the loop of scheduler s began has ended: run_update
\* returned or raised.
IterationEnded(s) ==
    /\ thread[s] \in {"run", "wait"}
    /\ pc[Thread(s)] \in {"done", "raised"}

\* The iteration that ended has failed: run_update raised, or every
\* provider failed.
IterationFailed(s) ==
    /\ IterationEnded(s)
    /\ \/ pc[Thread(s)] = "raised"
       \/ Len(result[Thread(s)].errors) = Len(Clients)

\* C24: a scheduler's loop is over only when the scheduler has been
\* signalled to stop, whatever its iterations did; and after every
\* iteration that ended, failed or not, the loop begins another one, unless
\* the scheduler is stopped first (for the iterations below MaxIterations).
C24_SchedulerResilience ==
    /\ [](\A s \in Scheds : thread[s] = "dead" => stop_event[s])
    /\ \A s \in Scheds : \A n \in 1..(MaxIterations - 1) :
          (IterationEnded(s) /\ started[Thread(s)] = n)
              ~> (started[Thread(s)] > n \/ stop_event[s])

\* The loop is inside its second iteration, one interval after a first
\* one in which run_update raised a persistence error, and nobody has
\* stopped the scheduler.
C24_Witness ==
    /\ thread[1] = "run"
    /\ started[Thread(1)] = 2
    /\ faults = 1
    /\ ~broke[Thread(1)]
    /\ elapsed[1] = 1
    /\ joined[1] = "no"
    /\ ~stop_event[1]

\* The iteration of scheduler s is in flight: its loop is inside
\* run_update.
InFlight(s) == thread[s] = "run" /\ ~Outside(Thread(s))

\* What a step may do once scheduler s has been signalled, whatever
\* begins an iteration: no interval is waited out, the flag stays set as
\* long as the thread is alive, the loop leaves run_update only when it has
\* returned or raised, and stop() itself changes nothing of the run.
SignalledStep(s) ==
    /\ elapsed'[s] = elapsed[s]
    /\ ~stop_event'[s] => ~is_alive(thread[s])
    /\ thread[s] = "run" /\ thread'[s] # "run" =>
          /\ pc[Thread(s)] \in {"done", "raised"}
          /\ thread'[s] = "wait"
    /\ stop_event' # stop_event \/ caller' # caller => UNCHANGED updvars

\* C25 as stated: once stop() has set the flag of a scheduler, no step
\* begins another run_update of its loop or waits out an interval, the
\* flag stays set as long as the thread is alive, the loop leaves the
\* iteration in flight only when run_update has returned or raised, stop()
\* itself changes nothing of the run, and the thread ends.
C25_NoRunAfterSignal ==
    /\ [][\A s \in Scheds :
             stop_event[s] =>
                /\ SignalledStep(s)
                /\ started'[Thread(s)] = started[Thread(s)]]_vars
    /\ \A s \in Scheds :
          (stop_event[s] /\ is_alive(thread[s])) ~> (thread[s] = "dead")

\* C25, amended: once stop() has set the flag of a scheduler, no while
\* test of its loop finds the flag clear, so that the only run_update
\* entered with the flag set is that of the iteration whose test came
\* before the signal; no interval is waited out, the flag stays set as
\* long as the thread is alive, the loop leaves the iteration in flight
\* only when run_update has returned or raised, stop() itself changes
\* nothing of the run, and the thread ends.
C25_CooperativeCancellation ==
    /\ [][\A s \in Scheds :
             stop_event[s] =>
                /\ SignalledStep(s)
                /\ thread'[s] = "try" => thread[s] = "try"
                /\ started'[Thread(s)] # started[Thread(s)] =>
                      thread[s] = "try"]_vars
    /\ \A s \in Scheds :
          (stop_event[s] /\ is_alive(thread[s])) ~> (thread[s] = "dead")

\* stop() has set the flag and waits in join while the loop, whose while
\* test found the flag clear, is about to enter run_update.
C25_Witness ==
    /\ caller = [op |-> "stop", s |-> 1]
    /\ stop_event[1]
    /\ thread[1] = "try"
    /\ started[Thread(1)] = 0

\* The step by which stop() of scheduler s returns control after a join.
StopReturns(s) ==
    /\ caller = [op |-> "stop", s |-> s]
    /\ caller' = NoMethod

\* C26 as stated: whenever stop() returns, the thread of the scheduler has
\* exited and no iteration of it is executing.
C26_StopWaitsForExit ==
    [][\A s \in Scheds :
          StopReturns(s) => thread'[s] = "dead" /\ ~InFlight(s)']_vars

\* C26, amended: whenever stop() returns, the flag of the scheduler is
\* set, and the thread has exited or the join has timed out with the
\* thread alive; after a timed-out join no while test of the loop finds
\* the flag clear, run_update is entered only by the iteration whose test
\* came before the signal, and the thread ends.
C26_StopWaitsBounded ==
    /\ [][\A s \in Scheds :
             StopReturns(s) =>
                /\ stop_event'[s]
                /\ \/ thread'[s] = "dead" /\ joined'[s] = "exited"
                   \/ is_alive(thread'[s]) /\ joined'[s] = "timeout"]_vars
    /\ [][\A s \in Scheds :
             is_alive(thread[s]) /\ joined[s] = "timeout" /\ stop_event[s]
                => /\ thread'[s] = "try" => thread[s] = "try"
                   /\ started'[Thread(s)] # started[Thread(s)] =>
                         thread[s] = "try"]_vars
    /\ \A s \in Scheds :
          (joined[s] = "timeout" /\ stop_event[s] /\ is_alive(thread[s]))
              ~> (thread[s] = "dead")

\* stop() has returned after its join timed out, and the iteration is
\* still between the dump and the replace of its snapshot write.
C26_Witness ==
    /\ caller = NoMethod
    /\ joined[1] = "timeout"
    /\ stop_event[1]
    /\ InFlight(1)
    /\ pc[Thread(1)] = "w_replace"
    /\ wpath[Thread(1)] = RATES_FILE

\* What the thread of scheduler s does in a CLI session, which has no
\* command that stops a scheduler.
CliLoopStep(s) ==
    \/ LoopTest(s, MaxRacing)
    \/ LoopBegin(s)
    \/ LoopAfter(s)
    \/ IntervalElapses(s)
    \/ RunStep(Thread(s))

\* A CLI session in which start-scheduler is issued, once or again.
NextCli ==
    \/ Tick
    \/ \E s \in Scheds : StartSchedulerCommand(s)
    \/ \E s \in Scheds : CliLoopStep(s)

SpecCli == InitSched /\ [][NextCli]_vars

\* The refresh loops that are running.
RunningLoops == {s \in Scheds : is_alive(thread[s])}

\* C27: at most one background refresh loop is running at any time.
C27_SingleBackgroundTask == Cardinality(RunningLoops) <= 1

\* ------------------------------------------------------------------------
\* buy and sell (core/usecases.py), and the read side as a whole.
\*
\* The base currency of every portfolio is USD (the default of the
\* settings).  Each command is followed up to each of its loads of the
\* rates file.
\* ------------------------------------------------------------------------

\* A command that saves the portfolio it holds before it ends early.
SavesAnyway(text) ==
    [answer |-> text, saves |-> TRUE, portfolio |-> NoPortfolio]

\* A command that ends before _save_user_portfolio.
NoTrade(text) ==
    [answer |-> text, saves |-> FALSE, portfolio |-> NoPortfolio]

\* A command that saved the portfolio.
Trade(text, portfolio) ==
    [answer |-> text, saves |-> TRUE, portfolio |-> portfolio]

TradeText(kind, rate, converted_amount) ==
    [kind |-> kind, error |-> "none", rate |-> rate,
     converted_amount |-> converted_amount]

\* buy and sell, the tests of the arguments (lines 184-189, 245-250).
trade_checks(logged, currency, amount) ==
    IF ~logged THEN Raises("ValueError")
    ELSE IF amount <= 0 THEN Raises("ValueError")
    ELSE IF currency \notin CURRENCY_REGISTRY
    THEN Raises("CurrencyNotFoundError")
    ELSE NoAnswer

\* buy from the rate on (lines 199-239), over the loaded portfolio and
\* with what the lookup of base -> currency returned.  A wallet of the
\* currency is added at the end of the dict when there is none.
buy(portfolio, currency, amount, r) ==
    LET base == "USD"
        cost_in_base == Mul(Float(amount), Reciprocal(r.rate))
        target == add_currency(portfolio, currency)
        new == [target.wallets EXCEPT ![base] = Sub(@, cost_in_base),
                                      ![currency] = Add(@, Float(amount))]
    IN  IF r.raised # "none" THEN NoTrade(Raises(r.raised))
        ELSE IF ~RateUsable(r.rate) THEN NoTrade(UnavailableText)
        ELSE IF Less(portfolio.wallets[base], cost_in_base)
             THEN NoTrade(Raises("InsufficientFundsError"))
        ELSE Trade(TradeText("bought", r.rate, cost_in_base),
                   [target EXCEPT !.wallets = new])

\* sell before the rate (lines 260-269): the wallet and its funds.
sell_checks(wallets, currency, amount) ==
    IF ~Has(wallets, currency) THEN MessageText("no wallet")
    ELSE IF Less(wallets[currency], Float(amount))
    THEN Raises("InsufficientFundsError")
    ELSE NoAnswer

\* sell from the rate on (lines 272-300), with what the lookup of
\* currency -> base returned.
sell(portfolio, currency, amount, r) ==
    LET base == "USD"
        revenue_in_base == Mul(Float(amount), r.rate)
        new == [portfolio.wallets EXCEPT
                   ![currency] = Sub(@, Float(amount)),
                   ![base] = Add(@, revenue_in_base)]
    IN  IF r.raised # "none" THEN NoTrade(Raises(r.raised))
        ELSE IF ~RateUsable(r.rate) THEN NoTrade(UnavailableText)
        ELSE Trade(TradeText("sold", r.rate, revenue_in_base),
                   [portfolio EXCEPT !.wallets = new])

\* The amounts asked for.
Amounts == {0, 1, 3}

\* The wallets of the user's record in the portfolios file, none when
\* there is no record.
StoredIn(file) ==
    LET found == RecordsOf(load_portfolios(file), CurrentUser.user_id)
    IN  IF found = <<>> THEN EmptyDict ELSE found[1].wallets

\* The record of a buy or sell command that has been called: wallets and
\* order are the dict of the portfolio it holds, before is what the
\* portfolios file held for the user at the call.
TradeCall(op, logged, currency, amount, portfolio) ==
    [op |-> op, logged |-> logged, currency |-> currency,
     amount |-> amount, wallets |-> portfolio.wallets,
     order |-> portfolio.order,
     before |-> StoredIn(fs[PORTFOLIOS_FILE])] @@ NoLookup

\* The portfolio a buy or sell command in progress holds.
HeldPortfolio ==
    [user_id |-> CurrentUser.user_id, wallets |-> call.wallets,
     order |-> call.order]

\* The buy command up to the first load of the rates file (lines 184-199):
\* the arguments are tested, the user's portfolio is loaded, and saved
\* when it is new, and the rate of base -> currency is asked for.
Buy(logged, currency, amount) ==
    /\ call = NoCall
    /\ LET early == trade_checks(logged, currency, amount)
           loaded == load_user_portfolio(fs, CurrentUser.user_id)
           c == TradeCall("buy", logged, currency, amount,
                          IF early = NoAnswer THEN loaded.portfolio
                          ELSE NoPortfolio)
       IN  IF early # NoAnswer
           THEN /\ call' = [at |-> "done"] @@ c
                /\ answer' = early
                /\ fs' = fs
           ELSE /\ fs' = loaded.files
                /\ IF currency = "USD"
                   THEN /\ call' = [at |-> "done"] @@ c
                        /\ answer' = MessageText("base currency")
                   ELSE /\ call' = Asked(c, "USD", currency, fs[RATES_FILE])
                        /\ answer' = NoAnswer
    /\ UNCHANGED runvars
    /\ UNCHANGED schedvars

\* buy once the lookup has returned (lines 199-239).
BuyRated ==
    /\ call.op = "buy"
    /\ At("rated")
    /\ LET t == buy(HeldPortfolio, call.currency, call.amount, call.rated)
       IN  /\ answer' = t.answer
           /\ fs' = IF t.saves THEN save_user_portfolio(fs, t.portfolio)
                    ELSE fs
    /\ call' = [at |-> "done"] @@ call
    /\ UNCHANGED runvars
    /\ UNCHANGED schedvars

\* The sell command up to the first load of the rates file (lines
\* 245-272).
Sell(logged, currency, amount) ==
    /\ call = NoCall
    /\ LET early == trade_checks(logged, currency, amount)
           loaded == load_user_portfolio(fs, CurrentUser.user_id)
           c == TradeCall("sell", logged, currency, amount,
                          IF early = NoAnswer THEN loaded.portfolio
                          ELSE NoPortfolio)
           held == sell_checks(loaded.portfolio.wallets, currency, amount)
       IN  IF early # NoAnswer
           THEN /\ call' = [at |-> "done"] @@ c
                /\ answer' = early
                /\ fs' = fs
           ELSE /\ fs' = loaded.files
                /\ IF currency = "USD"
                   THEN /\ call' = [at |-> "done"] @@ c
                        /\ answer' = MessageText("base currency")
                   ELSE IF held # NoAnswer
                   THEN /\ call' = [at |-> "done"] @@ c
                        /\ answer' = held
                   ELSE /\ call' = Asked(c, currency, "USD", fs[RATES_FILE])
                        /\ answer' = NoAnswer
    /\ UNCHANGED runvars
    /\ UNCHANGED schedvars

\* sell once the lookup has returned (lines 272-300).
SellRated ==
    /\ call.op = "sell"
    /\ At("rated")
    /\ LET t == sell(HeldPortfolio, call.currency, call.amount, call.rated)
       IN  /\ answer' = t.answer
           /\ fs' = IF t.saves THEN save_user_portfolio(fs, t.portfolio)
                    ELSE fs
    /\ call' = [at |-> "done"] @@ call
    /\ UNCHANGED runvars
    /\ UNCHANGED schedvars

\* The deposit command (lines 304-323): the arguments are tested, the
\* user's portfolio is loaded, and saved when it is new, the amount is
\* added to the wallet of the base currency and the portfolio is saved.
Deposit(logged, amount) ==
    /\ call = NoCall
    /\ call' = [op |-> "deposit", logged |-> logged, amount |-> amount,
                before |-> StoredIn(fs[PORTFOLIOS_FILE])]
    /\ IF ~logged \/ amount <= 0
       THEN /\ answer' = Raises("ValueError")
            /\ fs' = fs
       ELSE LET loaded == load_user_portfolio(fs, CurrentUser.user_id)
                held == loaded.portfolio
                new == [held.wallets EXCEPT
                           !["USD"] = Add(@, Float(amount))]
            IN  /\ answer' = [kind |-> "deposited", error |-> "none",
                              old_balance |-> held.wallets["USD"],
                              new_balance |-> new["USD"]]
                /\ fs' = save_user_portfolio(loaded.files,
                                             [held EXCEPT !.wallets = new])
    /\ UNCHANGED runvars
    /\ UNCHANGED schedvars

\* The register command (lines 356-394), for a password of the length
\* password: ensure_data_dir writes the files that are missing; a taken
\* name and a short password end the command with a message, and User()
\* refuses an empty name; otherwise the user is appended to the users file
\* under the id len(users) + 1 and a new portfolio is saved for that id.
Register(username, password) ==
    /\ call = NoCall
    /\ call' = [op |-> "register", username |-> username,
                password |-> password]
    /\ LET files == ensure_data_dir(fs)
           users == load_portfolios(files[USERS_FILE])
           user_id == Len(users) + 1
           saved == [files EXCEPT ![USERS_FILE] =
                        FullFile(Append(users, [user_id |-> user_id,
                                                username |-> username]))]
       IN  IF \E i \in 1..Len(users) : users[i].username = username
           THEN /\ answer' = MessageText("username taken")
                /\ fs' = files
           ELSE IF password < MIN_PASSWORD_LENGTH
           THEN /\ answer' = MessageText("short password")
                /\ fs' = files
           ELSE IF username = ""
           THEN /\ answer' = Raises("ValueError")
                /\ fs' = files
           ELSE /\ answer' = [kind |-> "registered", error |-> "none",
                              user_id |-> user_id]
                /\ fs' = save_user_portfolio(saved, NewPortfolio(user_id))
    /\ UNCHANGED runvars
    /\ UNCHANGED schedvars

\* JSONDatabase() (infra/database.py): the constructor calls
\* ensure_data_dir.
JSONDatabase ==
    /\ call = NoCall
    /\ call' = [op |-> "JSONDatabase"]
    /\ answer' = NoAnswer
    /\ fs' = ensure_data_dir(fs)
    /\ UNCHANGED runvars
    /\ UNCHANGED schedvars

\* JSONDatabase.remove(filename) (lines 70-81): the file is deleted when
\* it exists, and the answer tells whether it did.
remove(filename) ==
    /\ call = NoCall
    /\ call' = [op |-> "remove", filename |-> filename]
    /\ answer' = [kind |-> "removed", error |-> "none",
                  existed |-> fs[filename].st # "none"]
    /\ fs' = [fs EXCEPT ![filename] = NoFile]
    /\ UNCHANGED runvars
    /\ UNCHANGED schedvars

\* JSONDatabase.save(filename, data) (lines 50-65): the file is written
\* with the data.
save(filename, data) ==
    /\ call = NoCall
    /\ call' = [op |-> "save", filename |-> filename]
    /\ answer' = [kind |-> "saved", error |-> "none"]
    /\ fs' = [fs EXCEPT ![filename] = FullFile(data)]
    /\ UNCHANGED runvars
    /\ UNCHANGED schedvars

\* The empty document of the file's kind: {} for the rates file, [] for
\* the users and the portfolios file.
EmptyDocument(filename) ==
    IF filename = RATES_FILE THEN EmptyDict ELSE <<>>

\* The names register is called with: the logged-in user's, another one
\* and the empty one.
Usernames == {CurrentUser.username, "bob", ""}

\* The lengths of the passwords register is called with.
PasswordLengths == {MIN_PASSWORD_LENGTH - 1, MIN_PASSWORD_LENGTH}

\* One command or internal call of the read side on a data directory no
\* refresh is writing to.
NextReadSide ==
    \/ NextRead
    \/ /\ call = NoCall
       /\ \E from_currency, to_currency \in AskedCodes :
             ConvertOuter(from_currency, to_currency)
    \/ ConvertReturn
    \/ \E logged \in BOOLEAN, currency \in AskedCodes, amount \in Amounts :
          Buy(logged, currency, amount)
    \/ BuyRated
    \/ \E logged \in BOOLEAN, currency \in AskedCodes, amount \in Amounts :
          Sell(logged, currency, amount)
    \/ SellRated
    \/ \E logged \in BOOLEAN, amount \in Amounts : Deposit(logged, amount)
    \/ \E username \in Usernames, password \in PasswordLengths :
          Register(username, password)
    \/ JSONDatabase
    \/ \E filename \in {USERS_FILE, PORTFOLIOS_FILE, RATES_FILE} :
          remove(filename)
    \/ \E filename \in {USERS_FILE, PORTFOLIOS_FILE, RATES_FILE} :
          save(filename, EmptyDocument(filename))

\* The rates files of ReadFiles that carry no last_refresh or one of the
\* clock reading 0: the freshness of the snapshot decides nothing in the
\* resolver, buy or sell.
ReadSideFiles ==
    {file \in ReadFiles :
        file.st = "full" /\ Has(file.data, "last_refresh") =>
            file.data.last_refresh \in {None, FormatTs(0)}}

InitReadSide == InitReadOver(ReadSideFiles, UsersFiles, {1})

SpecReadSide == InitReadSide /\ [][NextReadSide]_vars

\* The read-side operations: the conversion resolver, the freshness
\* checker, get_rate, show_rates, show_portfolio, buy and sell.
ReadSideOps ==
    {"convert", "check_data_freshness", "get_rate", "show_rates",
     "show_portfolio", "buy", "sell"}

\* C28: no step of the conversion resolver, the freshness checker,
\* get_rate, show_rates, show_portfolio, buy or sell changes the snapshot
\* file.
C28_ReadSideFrame ==
    [][call'.op \in ReadSideOps => fs'[RATES_FILE] = fs[RATES_FILE]]_vars

\* buy has saved the portfolio beside a snapshot that holds entries.
C28_Witness ==
    /\ call.op = "buy"
    /\ At("done")
    /\ answer.kind = "bought"
    /\ fs[PORTFOLIOS_FILE].st = "full"
    /\ fs[RATES_FILE].st = "full"
    /\ Has(fs[RATES_FILE].data, "pairs")
    /\ fs[RATES_FILE].data.pairs # EmptyDict

\* C29: the resolver answers rate(X, X) with 1.0 at its first test, having
\* loaded nothing, for every code X and whatever is at the path of the
\* snapshot file (nothing, text that is not JSON, {}, or any document).
C29_IdentityUnconditional ==
    LookupDone /\ call.from = call.to =>
        /\ answer.rate = Float(1)
        /\ answer.step = "identity"
        /\ answer.depth = 0
        /\ answer.legs = <<>>
        /\ answer.raised = "none"
        /\ call.loads = <<>>

\* rate("USD", "USD") was asked over a snapshot file that is not readable
\* as JSON.
C29_Witness ==
    /\ LookupDone
    /\ call.from = "USD"
    /\ call.to = "USD"
    /\ fs[RATES_FILE] = PartialFile
    /\ answer.rate = Float(1)

\* The rate the resolver returns for the codes of the call at hand.
ResolverRate ==
    get_conversion_rate(call.from, call.to, fs[RATES_FILE], 0).rate

\* The freshness checker finds the loaded snapshot fresh at the call.
FoundFresh ==
    check_data_freshness(Loaded, now, call.ttl) = FreshnessNone

\* C30: over a snapshot that is not stale and for two supported codes,
\* get_rate returns a rate exactly when _get_conversion_rate returns one,
\* and the rate is the resolver's (the bridged rate where the resolver
\* bridges).
C30_SurfaceAgreesWithResolver ==
    /\ call.op = "get_rate"
    /\ call.from \in CURRENCY_REGISTRY
    /\ call.to \in CURRENCY_REGISTRY
    /\ FoundFresh
    => /\ answer.kind = "rate" <=> RateUsable(ResolverRate)
       /\ answer.kind = "rate" => SameNumber(answer.rate, ResolverRate)

\* ------------------------------------------------------------------------
\* Consumers of an unavailable rate.
\* ------------------------------------------------------------------------

\* The rate buy or sell asks the resolver for: base to currency for buy,
\* currency to base for sell.
NeededRate ==
    IF call.op = "buy"
    THEN get_conversion_rate("USD", call.currency, fs[RATES_FILE], 0).rate
    ELSE get_conversion_rate(call.currency, "USD", fs[RATES_FILE], 0).rate

\* The call passes the tests that precede the resolver: a logged-in user,
\* a positive amount, a supported currency other than the base and, for
\* sell, a wallet that holds the amount.
ReachesResolver ==
    /\ call.logged
    /\ call.amount > 0
    /\ call.currency \in CURRENCY_REGISTRY \ {"USD"}
    /\ call.op = "sell" =>
          /\ Has(call.wallets, call.currency)
          /\ ~Less(call.wallets[call.currency], Float(call.amount))

\* C31: when the resolver has no rate for the pair buy or sell needs, the
\* command makes no trade and the stored portfolio has after the call
\* every wallet balance it had before it, and a call that reaches the
\* resolver returns the rate-unavailable message (no division by the rate
\* raises).
C31_NoTradeOnUnavailable ==
    call.op \in {"buy", "sell"} /\ At("done") /\ NeededRate = None =>
        /\ StoredIn(fs[PORTFOLIOS_FILE]) = call.before
        /\ answer.kind \notin {"bought", "sold"}
        /\ ReachesResolver => answer = UnavailableText

\* buy was asked, by a user who holds funds, for a currency whose only
\* entry against the base has rate 0, and answered that the rate is
\* unavailable.
C31_Witness ==
    /\ call.op = "buy"
    /\ At("done")
    /\ call.before # EmptyDict
    /\ ReachesResolver
    /\ ZeroEntry("USD", call.currency)
    /\ NeededRate = None
    /\ answer = UnavailableText

\* ------------------------------------------------------------------------
\* C32.  A failed provider is all-or-nothing.
\* ------------------------------------------------------------------------

\* The provider's fetch failed in the run: fetch_rates was called and
\* raised, ApiRequestError or another exception.
FetchFailed(p, c) == tried[p][c] \notin {"ok", "no"}

\* The messages of the run's error list that name the provider.
MessagesOf(p, c) ==
    {i \in 1..Len(errors[p]) : errors[p][i][2] = ProviderName(c)}

\* The entries of the mapping that carry the provider's source are the
\* ones the run read at its start.
OnlyPriorEntries(p, c, pairs) ==
    \A k \in DOMAIN pairs :
        pairs[k].source = SourceName(c) =>
            /\ Has(PairsOf(existing[p]), k)
            /\ pairs[k] = PairsOf(existing[p])[k]

\* C32: once a provider's fetch has failed in a run, at every later point
\* of that run the merged mapping holds no entry of that provider beyond
\* those read at the start (and so does the snapshot the run persists), no
\* fetched quote and no appended history record carries its source, the
\* fetched count is the size of the other batches alone, and the error
\* list holds exactly one message naming it.
C32_FailedProviderAllOrNothing ==
    \A p \in Procs :
        \A c \in {"CoinGeckoClient", "ExchangeRateApiClient"} :
            FetchFailed(p, c) =>
                /\ OnlyPriorEntries(p, c, combined[p])
                /\ Returned(p) => OnlyPriorEntries(p, c, PairsOf(Persisted))
                /\ \A i \in 1..Len(got[p]) :
                      got[p][i].meta.source # SourceName(c)
                /\ \A i \in 1..Len(Appended(p)) :
                      Appended(p)[i].source # SourceName(c)
                /\ total_fetched[p] = Len(got[p])
                /\ Cardinality(MessagesOf(p, c)) = 1

\* ------------------------------------------------------------------------
\* C33.  Direction symmetry of the snapshot.
\* ------------------------------------------------------------------------

\* The key of the opposite direction.
ReverseKey(k) == PairKey(SplitKey(k)[2], SplitKey(k)[1])

\* Every key of the mapping has its reverse, with the same updated_at and
\* the same source.
Symmetric(pairs) ==
    \A k \in DOMAIN pairs :
        /\ Has(pairs, ReverseKey(k))
        /\ pairs[ReverseKey(k)].updated_at = pairs[k].updated_at
        /\ pairs[ReverseKey(k)].source = pairs[k].source

\* C33: starting from the empty snapshot, at every point of every
\* interleaving of the scheduler's and the foreground's refreshes the
\* persisted snapshot holds a key exactly when it holds the reverse key,
\* and the two entries carry the same updated_at and the same source.
C33_DirectionSymmetry == Symmetric(PairsOf(Persisted))

\* Both refreshes have returned and the snapshot holds the two directions
\* of a crypto pair and of a fiat pair, fetched at different seconds.
C33_Witness ==
    /\ \A p \in Procs : Returned(p)
    /\ \E k, j \in DOMAIN PairsOf(Persisted) :
          /\ PairsOf(Persisted)[k].source = "CoinGecko"
          /\ PairsOf(Persisted)[j].source = "ExchangeRate-API"
          /\ PairsOf(Persisted)[k].updated_at # PairsOf(Persisted)[j].updated_at

\* ------------------------------------------------------------------------
\* C34.  Per-pair recency across refreshes.
\* ------------------------------------------------------------------------

\* In this step no pair key of the persisted snapshot gets an entry with
\* an earlier updated_at.
RecencyKeptStep ==
    \A k \in DOMAIN PairsOf(Persisted) :
        Has(PairsOf(Persisted'), k) =>
            ~StrLess(PairsOf(Persisted')[k].updated_at,
                     PairsOf(Persisted)[k].updated_at)

\* C34: for every pair key the updated_at of its entry in the persisted
\* snapshot never decreases, in every interleaving of the scheduler's and
\* the foreground's refreshes.
C34_RecencyNeverRegresses == [][RecencyKeptStep]_vars

\* ------------------------------------------------------------------------
\* C35.  Snapshot entries and the audit log.
\* ------------------------------------------------------------------------

\* The history record tells of the snapshot entry stored under the key.
Backs(record, k, entry) ==
    /\ record.from_currency = SplitKey(k)[1]
    /\ record.to_currency = SplitKey(k)[2]
    /\ record.rate = entry.rate
    /\ record.timestamp = entry.updated_at
    /\ record.source = entry.source

\* C35: starting from the empty snapshot and the empty history, at every
\* point of every interleaving of refreshes each entry of the persisted
\* snapshot has a record in the persisted history with the same from/to
\* codes, rate, timestamp and source.
C35_EntriesBackedByLog ==
    \A k \in DOMAIN PairsOf(Persisted) :
        \E i \in 1..Len(HistoryLog) :
            Backs(HistoryLog[i], k, PairsOf(Persisted)[k])

\* ------------------------------------------------------------------------
\* A conversion lookup beside a refresh (core/usecases.py,
\* parser_service/updater.py).
\* ------------------------------------------------------------------------

\* The snapshot an earlier refresh left: both directions of the crypto and
\* of the fiat pair, quoted at 3.
EarlierSnapshot ==
    [pairs |->
        [k \in {PairKey("BTC", "USD"), PairKey("USD", "BTC"),
                PairKey("USD", "EUR"), PairKey("EUR", "USD")} |->
            [rate |-> IF k \in {PairKey("BTC", "USD"), PairKey("USD", "EUR")}
                      THEN Float(3) ELSE InverseRate(Float(3)),
             updated_at |-> FormatTs(0),
             source |-> IF "BTC" \in {k[1], k[2]}
                        THEN "CoinGecko" ELSE "ExchangeRate-API"]],
     last_refresh |-> FormatTs(0)]

\* The data directory holds that snapshot and the portfolio of a user with
\* 2 USD and 2 BTC.
InitConvert ==
    /\ fs = [f \in Files |->
               CASE f = RATES_FILE -> FullFile(EarlierSnapshot)
                 [] f = EXCHANGE_HISTORY_FILE -> FullFile(<<>>)
                 [] f = PORTFOLIOS_FILE ->
                        FullFile(<<to_dict(Funded(<<"USD", "BTC">>,
                                                  {"USD", "BTC"}))>>)
                 [] OTHER -> NoFile]
    /\ Idle({1})

\* The scheduler's refresh runs while the foreground looks rates up or
\* shows the portfolio.
NextConvert ==
    \/ Tick
    \/ StartRun("bg", NoSource, FALSE)
    \/ /\ targets["bg"] # <<>>
       /\ \E resp \in RacingResponses(Head(targets["bg"])) : Fetch("bg", resp)
    \/ AppendRead("bg")
    \/ AfterClients("bg")
    \/ WriteOpen("bg")
    \/ WriteDump("bg")
    \/ WriteReplace("bg")
    \/ \E from_currency, to_currency \in ResolverCodes :
          ConvertOuter(from_currency, to_currency)
    \/ ConvertLeg1
    \/ ConvertLeg2
    \/ ConvertReturn
    \/ \E base \in {NoArg, "EUR"} : ShowPortfolio(TRUE, base, 1)
    \/ PortfolioWallet
    \/ PortfolioRated
    \/ PortfolioEnd

SpecConvert == InitConvert /\ [][NextConvert]_vars

\* The snapshots the lookup loaded.
Loads == {call.loads[i] : i \in 1..Len(call.loads)}

\* ------------------------------------------------------------------------
\* C36.  A bridged conversion and the snapshot version.
\* ------------------------------------------------------------------------

\* C36: a lookup that went through USD returns what the whole lookup
\* yields on one of the persisted snapshots it met (the one before the
\* refresh's replace or the one after), never one leg from each.
C36_BridgeFromOneSnapshot ==
    (call.op = "convert" /\ call.at = "done" /\ Len(call.loads) = 3) =>
        \E file \in Loads :
            answer.rate =
                get_conversion_rate(call.from, call.to, file, 0).rate

\* ------------------------------------------------------------------------
\* C37.  Restart of a scheduler.
\* ------------------------------------------------------------------------

\* The scheduler is running: the stop signal is clear and its loop is
\* alive to begin iterations.
Running(s) == ~stop_event[s] /\ is_alive(thread[s])

\* C37: whenever the last call on a scheduler was start(), whatever
\* start() and stop() calls came before it, the scheduler is running; so
\* too when the stop() before it returned with an iteration in flight.
C37_RestartRuns ==
    \A s \in Scheds : method[s] = "start" => Running(s)

\* ------------------------------------------------------------------------
\* The pipeline with the whole configured code lists (core/constants.py,
\* parser_service/config.py) and the queries on what it stored.
\* ------------------------------------------------------------------------

\* The codes the configuration and the registry name.
ConfiguredCodes ==
    {BASE_FIAT_CURRENCY}
        \cup {SUPPORTED_FIAT[i] : i \in 1..Len(SUPPORTED_FIAT)}
        \cup {SUPPORTED_CRYPTO[i] : i \in 1..Len(SUPPORTED_CRYPTO)}

\* What a provider reports in one exchange: nothing, or one of its codes.
ReportedOf(codes) == {{}} \cup {{codes[i]} : i \in 1..Len(codes)}

\* The well-formed exchanges in which the provider quotes 2 for the codes
\* it reports and has nothing for the others.
StoredResponses(client) ==
    {[kind |-> "ok", exc |-> "none", rates |-> "object",
      body |-> [c \in BodyCodes |->
                   IF c \in reported THEN JNum(2) ELSE JMissing]] :
        reported \in ReportedOf(IF client = "CoinGeckoClient"
                               THEN CRYPTO_CODES ELSE FIAT_CURRENCIES)}

\* update-rates commands of the foreground over the configured providers,
\* step by step, and then a get-rate command.
NextStored ==
    \/ Tick
    \/ /\ call = NoCall
       /\ StartRun("fg", NoSource, TRUE)
    \/ /\ targets["fg"] # <<>>
       /\ \E resp \in StoredResponses(Head(targets["fg"])) : Fetch("fg", resp)
    \/ AppendRead("fg")
    \/ AfterClients("fg")
    \/ WriteOpen("fg")
    \/ WriteDump("fg")
    \/ WriteReplace("fg")
    \/ /\ Outside("fg")
       /\ \E from_code, to_code \in ConfiguredCodes, ttl \in Ttls :
             GetRate(from_code, to_code, ttl)

SpecStored == Init /\ [][NextStored]_vars

\* ------------------------------------------------------------------------
\* C38.  Every stored pair can be queried.
\* ------------------------------------------------------------------------

\* C38: each currency code of a pair key in the persisted snapshot is in
\* the currency registry, and get_rate on a stored pair does not fail with
\* CurrencyNotFoundError.
C38_StoredPairsQueryable ==
    \A k \in DOMAIN PairsOf(Persisted) :
        /\ SplitKey(k)[1] \in CURRENCY_REGISTRY
        /\ SplitKey(k)[2] \in CURRENCY_REGISTRY
        /\ \A ttl \in Ttls :
              get_rate(SplitKey(k)[1], SplitKey(k)[2], fs[RATES_FILE], now,
                       ttl) # Raises("CurrencyNotFoundError")

====
